---- MODULE Spec2Model ----
(***************************************************************************)
(* A model of the serde decoding engine of go-gum/gum: field resolution    *)
(* (fieldsToSerialize), the setter compiler with its process-wide cache    *)
(* (setterOf / makeSetterOf) and the compiled setters applied to a source; *)
(* and of the Handler of package gum with the responses it serves.         *)
(*                                                                         *)
(* Names and struct tags are sequences of one-token strings, so that the   *)
(* tag parsing of nameOf (first comma, prefix before it) is computed.      *)
(* Paths of a source are sequences of names.                               *)
(***************************************************************************)
EXTENDS Integers, Sequences, FiniteSets, TLC

VARIABLES
    structs,   \* struct type id -> sequence of declared fields (reflect.Type)
    cache,     \* cachedSetters: type id -> finished setter
    procs,     \* per goroutine: the Unmarshal call it is executing
    hist,      \* history of the run: calls started, did a compile fail
    lab,       \* sequential harness applying fieldsToSerialize and Unmarshal
    srv        \* the request a Handler is serving

vars == <<structs, cache, procs, hist, lab, srv>>

----------------------------------------------------------------------------
(* Bounds *)

MaxFields == 2      \* most declared fields of the struct under resolution
MaxCalls == 2       \* Unmarshal calls of one run, over all goroutines
MaxChain == 3       \* deepest commit-parent chain a source supplies

----------------------------------------------------------------------------
(* Small helpers on sequences *)

Last(s) == s[Len(s)]

Front(s) == SubSeq(s, 1, Len(s) - 1)

Range(s) == {s[i] : i \in 1..Len(s)}

IsPrefix(p, s) == Len(p) <= Len(s) /\ SubSeq(s, 1, Len(p)) = p

----------------------------------------------------------------------------
(* Type descriptions (reflect.Type).  Struct shapes live in `structs`.     *)

NoType == "-"

\* ty.Kind(), ty.Elem(), ty.Key() and ty.Len() of one type; for an integer
\* kind, len is its width in bytes, 0 for the platform-sized int and uint
Ty(kind, elem, key, len) == [kind |-> kind, elem |-> elem, key |-> key, len |-> len]

TypeTable ==
    [t \in {"string", "func", "*string",
            "Node", "*Node", "Bad", "*Bad", "Tree", "[]Tree",
            "Ring", "*Ring", "[1]*Ring", "Dict", "map[string]Dict",
            "int8", "int16", "int32", "int64", "int",
            "uint8", "uint16", "uint32", "uint64", "uint", "*int",
            "[]string", "[2]string", "[4]string", "[2]uint8",
            "map[string]string", "map[int8]string",
            "Tags", "IP", "Ints", "Host", "Article", "Conf",
            "R", "E1", "E2", "E3", "*E1"} |->
        CASE t = "string" -> Ty("String", NoType, NoType, 0)
          [] t = "func"   -> Ty("Func", NoType, NoType, 0)
          [] t = "*string" -> Ty("Pointer", "string", NoType, 0)
          [] t = "*Node"  -> Ty("Pointer", "Node", NoType, 0)
          [] t = "*Bad"   -> Ty("Pointer", "Bad", NoType, 0)
          [] t = "*E1"    -> Ty("Pointer", "E1", NoType, 0)
          [] t = "*Ring"  -> Ty("Pointer", "Ring", NoType, 0)
          [] t = "*int"   -> Ty("Pointer", "int", NoType, 0)
          [] t = "int8"   -> Ty("Int", NoType, NoType, 1)
          [] t = "int16"  -> Ty("Int", NoType, NoType, 2)
          [] t = "int32"  -> Ty("Int", NoType, NoType, 4)
          [] t = "int64"  -> Ty("Int", NoType, NoType, 8)
          [] t = "int"    -> Ty("Int", NoType, NoType, 0)
          [] t = "uint8"  -> Ty("Uint", NoType, NoType, 1)
          [] t = "uint16" -> Ty("Uint", NoType, NoType, 2)
          [] t = "uint32" -> Ty("Uint", NoType, NoType, 4)
          [] t = "uint64" -> Ty("Uint", NoType, NoType, 8)
          [] t = "uint"   -> Ty("Uint", NoType, NoType, 0)
          [] t \in {"[]string", "Tags"} -> Ty("Slice", "string", NoType, 0)
          [] t = "IP"     -> Ty("Slice", "uint8", NoType, 0)
          [] t = "[2]string" -> Ty("Array", "string", NoType, 2)
          [] t = "[4]string" -> Ty("Array", "string", NoType, 4)
          [] t = "[2]uint8" -> Ty("Array", "uint8", NoType, 2)
          [] t = "map[string]string" -> Ty("Map", "string", "string", 0)
          [] t = "map[int8]string" -> Ty("Map", "string", "int8", 0)
          [] t = "[]Tree" -> Ty("Slice", "Tree", NoType, 0)
          [] t = "[1]*Ring" -> Ty("Array", "*Ring", NoType, 1)
          [] t = "map[string]Dict" -> Ty("Map", "Dict", "string", 0)
          [] OTHER        -> Ty("Struct", NoType, NoType, 0)]

Kind(ty) == TypeTable[ty].kind

Elem(ty) == TypeTable[ty].elem

Key(ty) == TypeTable[ty].key

ArrayLen(ty) == TypeTable[ty].len

\* the bytes of an integer kind: Int8 is 1, Int64 is 8, Int is 0
IntWidth(ty) == TypeTable[ty].len

\* the types whose pointer has an UnmarshalText method: Tags and net.IP
TextTypes == {"Tags", "IP"}

StructIds == {t \in DOMAIN TypeTable : Kind(t) = "Struct"}

\* reflect.StructField: declared name, json tag, embedded, exported, type
Decl(name, tag, anon, exported, type) ==
    [name |-> name, tag |-> tag, anon |-> anon, exported |-> exported, type |-> type]

Plain(name, type) == Decl(<<name>>, <<>>, FALSE, TRUE, type)

\* the struct types of the decode scenarios
NodeFields == <<Plain("Sha1", "string"), Plain("Parent", "*Node")>>

BadFields == <<Plain("Next", "*Bad"), Plain("F", "func")>>

TreeFields == <<Plain("Tag", "string"), Plain("Kids", "[]Tree")>>

RingFields == <<Plain("Tag", "string"), Plain("Prev", "[1]*Ring")>>

DictFields == <<Plain("Sub", "map[string]Dict")>>

E3Fields == <<Plain("A", "string"), Plain("B", "string")>>

IntsFields ==
    <<Plain("Int8", "int8"), Plain("Int16", "int16"),
      Plain("Int32", "int32"), Plain("Int64", "int64"),
      Plain("Uint8", "uint8"), Plain("Uint16", "uint16"),
      Plain("Uint32", "uint32"), Plain("Uint64", "uint64")>>

HostFields == <<Plain("Host", "IP"), Plain("Port", "*int"), Plain("Count", "uint")>>

ArticleFields == <<Plain("Text", "string"), Plain("Tags", "[]string")>>

ConfFields == <<Plain("Type", "string"), Plain("Values", "map[string]string")>>

----------------------------------------------------------------------------
(* nameOf: the resolved name of a field and whether it is explicit.        *)

Comma == ","

\* strings.IndexByte(tag, ','): first position of a comma, 0 when none
RECURSIVE IndexComma(_, _)
IndexComma(tag, i) ==
    IF i > Len(tag) THEN 0
    ELSE IF tag[i] = Comma THEN i
    ELSE IndexComma(tag, i + 1)

SkipTag == <<"-">>

\* nameOf without the skip marker: "-" is read as no tag at all
nameOfIgnoresSkip(fi) ==
    IF fi.tag = <<>> \/ fi.tag = SkipTag THEN [name |-> fi.name, explicit |-> FALSE]
    ELSE LET idx == IndexComma(fi.tag, 1) IN
         IF idx = 0 THEN [name |-> fi.tag, explicit |-> TRUE]
         ELSE IF idx > 1 THEN [name |-> SubSeq(fi.tag, 1, idx - 1), explicit |-> TRUE]
         ELSE [name |-> fi.name, explicit |-> FALSE]

nameOf(fi) ==
    IF fi.tag = <<>> THEN [name |-> fi.name, explicit |-> FALSE]
    ELSE IF fi.tag = SkipTag THEN [name |-> <<>>, explicit |-> TRUE]
    ELSE LET idx == IndexComma(fi.tag, 1) IN
         IF idx = 0 THEN [name |-> fi.tag, explicit |-> TRUE]
         ELSE IF idx > 1 THEN [name |-> SubSeq(fi.tag, 1, idx - 1), explicit |-> TRUE]
         ELSE [name |-> fi.name, explicit |-> FALSE]

----------------------------------------------------------------------------
(* fieldsToSerialize: breadth-first walk, then conflict resolution.        *)

Field(name, type, index) == [Name |-> name, Type |-> type, Index |-> index]

Candidate(name, explicit, fld) == [Name |-> name, Explicit |-> explicit, Field |-> fld]

Queued(type, parentIndex) == [Type |-> type, ParentIndex |-> parentIndex]

CandidatesOf(candidates, name) ==
    IF name \in DOMAIN candidates THEN candidates[name] ELSE <<>>

\* AddCandidate putting a new name in front of the names seen before
AddCandidateNameInFront(st, cand) ==
    LET old == CandidatesOf(st.candidates, cand.Name)
    IN  [st EXCEPT
            !.order = IF Len(old) = 0 THEN <<cand.Name>> \o @ ELSE @,
            !.candidates = [n \in DOMAIN @ \cup {cand.Name} |->
                               IF n = cand.Name THEN Append(old, cand) ELSE @[n]]]

\* the candidates with one more candidate recorded under its name
AddCandidate(st, cand) ==
    LET old == CandidatesOf(st.candidates, cand.Name)
    IN  [st EXCEPT
            !.order = IF Len(old) = 0 THEN Append(@, cand.Name) ELSE @,
            !.candidates = [n \in DOMAIN @ \cup {cand.Name} |->
                               IF n = cand.Name THEN Append(old, cand) ELSE @[n]]]

\* VisitField expanding every embedded struct, also one with an explicit name
VisitFieldExpandsNamed(item, idx, st) ==
    LET fi == structs[item.Type][idx]
        nm == nameOf(fi)
        index == item.ParentIndex \o <<idx>>
    IN  IF ~fi.exported THEN st
        ELSE IF nm.name = <<>> THEN st
        ELSE IF fi.anon THEN
            IF Kind(fi.type) # "Struct" THEN st
            ELSE [st EXCEPT !.queue = Append(@, Queued(fi.type, index))]
        ELSE AddCandidate(st, Candidate(nm.name, nm.explicit, Field(nm.name, fi.type, index)))

\* the body of the loop over item.Type.Field(idx), for one field
VisitField(item, idx, st) ==
    LET fi == structs[item.Type][idx]
        nm == nameOf(fi)
        index == item.ParentIndex \o <<idx>>
    IN  IF ~fi.exported THEN st
        ELSE IF nm.name = <<>> THEN st
        ELSE IF fi.anon /\ ~nm.explicit THEN
            IF Kind(fi.type) # "Struct" THEN st
            ELSE [st EXCEPT !.queue = Append(@, Queued(fi.type, index))]
        ELSE AddCandidate(st, Candidate(nm.name, nm.explicit, Field(nm.name, fi.type, index)))

RECURSIVE ScanFields(_, _, _)
ScanFields(item, idx, st) ==
    IF idx > Len(structs[item.Type]) THEN st
    ELSE ScanFields(item, idx + 1, VisitField(item, idx, st))

RECURSIVE WalkQueue(_)

\* WalkQueue taking the struct queued last, a walk in depth
WalkQueueNewestFirst(st) ==
    IF Len(st.queue) = 0 THEN st
    ELSE LET item == st.queue[Len(st.queue)]
         IN  WalkQueue(ScanFields(item, 1, [st EXCEPT !.queue = SubSeq(@, 1, Len(@) - 1)]))

\* the loop over the queue of the structs to walk
WalkQueue(st) ==
    IF Len(st.queue) = 0 THEN st
    ELSE LET item == Head(st.queue)
         IN  WalkQueue(ScanFields(item, 1, [st EXCEPT !.queue = Tail(@)]))

\* the candidates and the order of first encounter after the walk
CollectCandidates(ty) ==
    WalkQueue([queue |-> <<Queued(ty, <<>>)>>,
               candidates |-> [n \in {} |-> <<>>],
               order |-> <<>>])

\* every candidate the walk recorded, under whatever name
AllCandidates(st) == UNION {Range(st.candidates[n]) : n \in DOMAIN st.candidates}

\* ScanVisible taking a more nested candidate for one of the same level
ScanVisibleKeepsDeeper(visible, cand) ==
    IF Len(visible) = 0 THEN <<cand>>
    ELSE IF Len(cand.Field.Index) < Len(visible[1].Field.Index) THEN <<cand>>
    ELSE Append(visible, cand)

\* one step of the scan that keeps the least nested candidates
ScanVisible(visible, cand) ==
    IF Len(visible) = 0 THEN <<cand>>
    ELSE IF Len(cand.Field.Index) < Len(visible[1].Field.Index) THEN <<cand>>
    ELSE IF Len(cand.Field.Index) = Len(visible[1].Field.Index) THEN Append(visible, cand)
    ELSE visible

RECURSIVE VisibleOf(_, _, _)
VisibleOf(cands, i, visible) ==
    IF i > Len(cands) THEN visible
    ELSE VisibleOf(cands, i + 1, ScanVisible(visible, cands[i]))

IsExplicit(c) == c.Explicit

ExplicitCount(visible) == Len(SelectSeq(visible, IsExplicit))

\* VisibleOf as a helper of the mutated resolutions below
RECURSIVE VisibleScan(_, _, _)
VisibleScan(cands, i, visible) ==
    IF i > Len(cands) THEN visible
    ELSE VisibleScan(cands, i + 1,
            IF Len(visible) = 0 \/ Len(cands[i].Field.Index) < Len(visible[1].Field.Index)
            THEN <<cands[i]>>
            ELSE IF Len(cands[i].Field.Index) = Len(visible[1].Field.Index)
            THEN Append(visible, cands[i])
            ELSE visible)

\* ResolveName picking the first of the tied candidates
ResolveNameFirstWins(cands) == <<VisibleScan(cands, 1, <<>>)[1].Field>>

\* ResolveName keeping every tied candidate
ResolveNameAllVisible(cands) ==
    LET visible == VisibleScan(cands, 1, <<>>)
    IN  [i \in 1..Len(visible) |-> visible[i].Field]

\* the fields one name contributes to the output
ResolveName(cands) ==
    LET visible == VisibleOf(cands, 1, <<>>)
    IN  IF Len(visible) = 1 THEN <<visible[1].Field>>
        ELSE IF ExplicitCount(visible) = 1
             THEN <<SelectSeq(visible, IsExplicit)[1].Field>>
        ELSE <<>>

RECURSIVE ResolveOrder(_, _, _)
ResolveOrder(st, i, fields) ==
    IF i > Len(st.order) THEN fields
    ELSE ResolveOrder(st, i + 1, fields \o ResolveName(st.candidates[st.order[i]]))

fieldsToSerialize(ty) == ResolveOrder(CollectCandidates(ty), 1, <<>>)

----------------------------------------------------------------------------
(* Target values (reflect.Value): a string, a pointer (<<>> is nil, <<v>>  *)
(* points to v), a slice or array (sequence), a map (<<>> is nil, else the *)
(* set of its key/value pairs) or a struct (sequence of the values of its  *)
(* declared fields, addressed by position).                                *)

RECURSIVE Zero(_)
Zero(ty) ==
    CASE Kind(ty) = "String" -> ""
      [] Kind(ty) \in {"Int", "Uint"} -> 0
      [] Kind(ty) = "Struct" -> [i \in 1..Len(structs[ty]) |-> Zero(structs[ty][i].type)]
      [] Kind(ty) = "Array" -> [i \in 1..ArrayLen(ty) |-> Zero(Elem(ty))]
      [] OTHER -> <<>>

\* reflect.MakeMap and SetMapIndex
MapOf(pairs) == [pairs |-> pairs]

SetMapIndex(m, k, v) == MapOf({pr \in m.pairs : pr[1] # k} \cup {<<k, v>>})

RECURSIVE FieldByIndex(_, _)
FieldByIndex(target, index) ==
    IF index = <<>> THEN target
    ELSE FieldByIndex(target[Head(index)], Tail(index))

\* the target after the slot at `index` was set to v
RECURSIVE SetByIndex(_, _, _)
SetByIndex(target, index, v) ==
    IF index = <<>> THEN v
    ELSE [target EXCEPT ![Head(index)] = SetByIndex(@, Tail(index), v)]

----------------------------------------------------------------------------
(* Errors: the root cause, the type it names, and the wrapping contexts.   *)

NoErr == [cause |-> "", on |-> NoType, ctx |-> <<>>]

ErrInvalidType == [cause |-> "ErrInvalidType", on |-> NoType, ctx |-> <<>>]

ErrNoValue == [cause |-> "ErrNoValue", on |-> NoType, ctx |-> <<>>]

NotSupportedError(ty) == [cause |-> "NotSupportedError", on |-> ty, ctx |-> <<>>]

IsErr(e) == e.cause # ""

\* fmt.Errorf("msg %q: %w", arg, err)
Wrap(msg, arg, e) == [e EXCEPT !.ctx = <<[msg |-> msg, arg |-> arg]>> \o @]

\* errors.Is(err, ErrNoValue)
IsNoValue(e) == e.cause = "ErrNoValue"

\* strconv.ErrSyntax joined with ErrInvalidType
ErrSyntax == [cause |-> "ErrSyntax", on |-> NoType, ctx |-> <<>>]

\* strconv.ErrRange
ErrRange == [cause |-> "ErrRange", on |-> NoType, ctx |-> <<>>]

\* io.EOF of a reader with nothing left
EOF == [cause |-> "EOF", on |-> NoType, ctx |-> <<>>]

\* fmt.Errorf("invalid uint value %d", intValue)
InvalidUint == [cause |-> "invalid uint value", on |-> NoType, ctx |-> <<>>]

\* the error of a type's UnmarshalText
ParseError == [cause |-> "ParseError", on |-> NoType, ctx |-> <<>>]

----------------------------------------------------------------------------
(* Texts.  A Go string is read as its tokens: every digit, sign, dot and    *)
(* comma by itself, and every run of other characters as one token.        *)

\* the strings of the scenarios that hold a digit, sign, dot or comma
Spelled ==
    ("" :> <<>>) @@ ("-5" :> <<"-", "5">>) @@ ("+5" :> <<"+", "5">>)
    @@ ("127" :> <<"1", "2", "7">>) @@ ("128" :> <<"1", "2", "8">>)
    @@ ("300" :> <<"3", "0", "0">>)
    @@ ("a,b" :> <<"a", ",", "b">>) @@ ("a,," :> <<"a", ",", ",">>)
    @@ ("1.2.3.4" :> <<"1", ".", "2", ".", "3", ".", "4">>)
    @@ ("1.2.x" :> <<"1", ".", "2", ".", "x">>)
    @@ ("256.2.3.4" :> <<"2", "5", "6", ".", "2", ".", "3", ".", "4">>)

\* []byte(text)
Tokens(text) == IF text \in DOMAIN Spelled THEN Spelled[text] ELSE <<text>>

\* string(tokens)
Text(tokens) ==
    IF \E t \in DOMAIN Spelled : Spelled[t] = tokens
    THEN CHOOSE t \in DOMAIN Spelled : Spelled[t] = tokens
    ELSE tokens[1]

Digits == <<"0", "1", "2", "3", "4", "5", "6", "7", "8", "9">>

IsDigit(ch) == \E d \in 1..10 : Digits[d] = ch

DigitVal(ch) == (CHOOSE d \in 1..10 : Digits[d] = ch) - 1

\* the value of a run of digits, read from the left
RECURSIVE DigitsVal(_, _)
DigitsVal(text, acc) ==
    IF text = <<>> THEN acc
    ELSE DigitsVal(Tail(text), acc * 10 + DigitVal(Head(text)))

AllDigits(text) == text # <<>> /\ \A i \in 1..Len(text) : IsDigit(text[i])

\* the limits of 8 and 16 bits; the numerals of the scenarios have at most
\* three digits and are within the limits of 32 and 64 bits
InRange(n, bits, signed) ==
    CASE bits = 8 -> IF signed THEN n >= -128 /\ n <= 127 ELSE n >= 0 /\ n <= 255
      [] bits = 16 -> IF signed THEN n >= -32768 /\ n <= 32767 ELSE n >= 0 /\ n <= 65535
      [] OTHER -> signed \/ n >= 0

\* strconv.ParseInt(s, 10, bits)
ParseInt(text, bits) ==
    LET signs == Tokens(text) # <<>> /\ Head(Tokens(text)) \in {"+", "-"}
        body == IF signs THEN Tail(Tokens(text)) ELSE Tokens(text)
        sign == Head(Tokens(text))
        n == IF signs /\ sign = "-" THEN 0 - DigitsVal(body, 0) ELSE DigitsVal(body, 0)
    IN  IF ~AllDigits(body) THEN [err |-> ErrSyntax, v |-> 0]
        ELSE IF ~InRange(n, bits, TRUE) THEN [err |-> ErrRange, v |-> 0]
        ELSE [err |-> NoErr, v |-> n]

\* strconv.ParseUint(s, 10, bits): no sign is accepted
ParseUint(text, bits) ==
    IF ~AllDigits(Tokens(text)) THEN [err |-> ErrSyntax, v |-> 0]
    ELSE IF ~InRange(DigitsVal(Tokens(text), 0), bits, FALSE) THEN [err |-> ErrRange, v |-> 0]
    ELSE [err |-> NoErr, v |-> DigitsVal(Tokens(text), 0)]

----------------------------------------------------------------------------
(* Sources.  dummySourceValue: a map from paths to entries and the path of *)
(* the node; StringValue: one string; InvalidValue: nothing.               *)

Entry(t, v) == [t |-> t, v |-> v]

NilEntry == Entry("nil", "")

DummySource(values, path) == [kind |-> "dummy", Values |-> values, Path |-> path]

StringValue(v) == [kind |-> "string", Values |-> <<>>, Path |-> <<>>, v |-> v]

InvalidValue == [kind |-> "invalid", Values |-> <<>>, Path |-> <<>>]

\* stringSliceValue: the values of one query parameter
StringSliceValue(items) ==
    [kind |-> "strings", Values |-> <<>>, Path |-> <<>>, items |-> items]

\* querySourceValue: url.Values, a map from keys to their values
QuerySource(values) == [kind |-> "query", Values |-> values, Path |-> <<>>]

\* binarySourceValue: a reader over the bytes of a stream
BinarySource(stream) == [kind |-> "binary", Values |-> <<>>, Path |-> <<>>, stream |-> stream]

\* singleValueOf
singleValueOf(values) ==
    CASE Len(values) = 0 -> [err |-> ErrNoValue, v |-> <<>>]
      [] Len(values) = 1 -> [err |-> NoErr, v |-> values[1]]
      [] OTHER -> [err |-> ErrInvalidType, v |-> <<>>]

HasEntry(src) == src.Path \in DOMAIN src.Values

\* SourceValue.String
SrcString(src) ==
    CASE src.kind = "dummy" ->
            IF HasEntry(src)
            THEN IF src.Values[src.Path].t = "string"
                 THEN [err |-> NoErr, v |-> src.Values[src.Path].v]
                 ELSE [err |-> ErrInvalidType, v |-> ""]
            ELSE [err |-> NoErr, v |-> "foobar"]
      [] src.kind = "string" -> [err |-> NoErr, v |-> src.v]
      [] src.kind = "strings" ->
            LET one == singleValueOf(src.items)
            IN  [err |-> NoErr, v |-> IF IsErr(one.err) THEN "" ELSE one.v]
      [] src.kind \in {"invalid", "query"} -> [err |-> ErrInvalidType, v |-> ""]

\* SourceValue.Int
SrcInt(src) ==
    CASE src.kind = "dummy" ->
            IF HasEntry(src)
            THEN IF src.Values[src.Path].t = "int64"
                 THEN [err |-> NoErr, v |-> src.Values[src.Path].v]
                 ELSE [err |-> ErrInvalidType, v |-> 0]
            ELSE [err |-> NoErr, v |-> 1234]
      [] src.kind = "string" ->
            LET r == ParseInt(src.v, 64)
            IN  IF IsErr(r.err) THEN [err |-> ErrInvalidType, v |-> 0] ELSE r
      [] src.kind = "strings" ->
            LET one == singleValueOf(src.items)
                r == ParseInt(one.v, 64)
            IN  IF IsErr(one.err) THEN [err |-> NoErr, v |-> 0]
                ELSE IF IsErr(r.err) THEN [err |-> ErrInvalidType, v |-> 0]
                ELSE r
      [] src.kind \in {"invalid", "query", "binary"} -> [err |-> ErrInvalidType, v |-> 0]

\* a source of which no sized accessor is ever asked
NoIntSource(src) == FALSE

\* source.(IntSourceValue)
IsIntSource(src) == src.kind \in {"string", "binary"}

\* the name of the accessor of one width and signedness
SizedOp(signed, width) ==
    CASE width = 1 -> IF signed THEN "Int8" ELSE "Uint8"
      [] width = 2 -> IF signed THEN "Int16" ELSE "Uint16"
      [] width = 4 -> IF signed THEN "Int32" ELSE "Uint32"
      [] width = 8 -> IF signed THEN "Int64" ELSE "Uint64"

SizedOps == {SizedOp(sg, w) : sg \in BOOLEAN, w \in {1, 2, 4, 8}}

\* the bytes the reader of a binary source has handed out so far
RECURSIVE Consumed(_)
Consumed(log) ==
    IF log = <<>> THEN 0
    ELSE Consumed(Front(log))
         + (IF Last(log).op \in SizedOps /\ Last(log).path = <<"reader">>
            THEN Last(log).key[2] ELSE 0)

Min(a, b) == IF a <= b THEN a ELSE b

\* bytes.Reader.Read into a zeroed buffer of w bytes: io.EOF when nothing is
\* left, else the bytes that are left, as many as fit, and no error
ReadBytes(stream, pos, w) ==
    IF pos >= Len(stream) THEN [err |-> EOF, buf |-> [i \in 1..w |-> 0], n |-> 0]
    ELSE [err |-> NoErr,
          buf |-> [i \in 1..w |-> IF pos + i <= Len(stream) THEN stream[pos + i] ELSE 0],
          n |-> Min(w, Len(stream) - pos)]

\* binary.LittleEndian.UintNN(buf), converted to the signed type or not: the
\* number whose base-256 digits are buf, the lowest first
LittleEndian(buf, signed) == [le |-> buf, signed |-> signed]

\* IntSourceValue.Int8 .. Uint64, with the reads made before this one
SrcSized(src, signed, width, log) ==
    CASE src.kind = "string" ->
            IF signed THEN ParseInt(src.v, 8 * width) ELSE ParseUint(src.v, 8 * width)
      [] src.kind = "binary" ->
            LET r == ReadBytes(src.stream, Consumed(log), width)
            IN  [err |-> r.err,
                 v |-> IF IsErr(r.err) THEN 0 ELSE LittleEndian(r.buf, signed)]

\* the record of one read of the reader of a binary source
ReadCall(signed, width, src, log) ==
    [op |-> SizedOp(signed, width), path |-> <<"reader">>,
     key |-> <<Consumed(log), ReadBytes(src.stream, Consumed(log), width).n>>]

\* source.(ContainerSourceValue)
IsContainer(src) == src.kind \in {"dummy", "query", "strings", "binary"}

\* querySourceValue.Get looking at the plain key alone
QueryGetPlainKey(values, key) ==
    IF key \notin DOMAIN values \/ Len(values[key]) = 0
    THEN [err |-> ErrNoValue, v |-> InvalidValue]
    ELSE [err |-> NoErr, v |-> StringSliceValue(values[key])]

\* querySourceValue.Get: the values of key[] if there are any, else of key
QueryGet(values, key) ==
    IF Append(key, "[]") \in DOMAIN values
    THEN [err |-> NoErr, v |-> StringSliceValue(values[Append(key, "[]")])]
    ELSE IF key \notin DOMAIN values \/ Len(values[key]) = 0
    THEN [err |-> ErrNoValue, v |-> InvalidValue]
    ELSE [err |-> NoErr, v |-> StringSliceValue(values[key])]

\* ContainerSourceValue.Get
SrcGet(src, key) ==
    CASE src.kind = "dummy" ->
            LET path == Append(src.Path, key)
            IN  IF path \in DOMAIN src.Values /\ src.Values[path].t = "nil"
                THEN [err |-> ErrNoValue, v |-> InvalidValue]
                ELSE [err |-> NoErr, v |-> DummySource(src.Values, path)]
      [] src.kind = "query" -> QueryGet(src.Values, key)
      [] src.kind = "strings" -> [err |-> ErrInvalidType, v |-> InvalidValue]
      [] src.kind = "binary" -> [err |-> NoErr, v |-> src]

\* source.(SliceSourceValue)
IsSlice(src) == src.kind \in {"dummy", "strings", "binary"}

ElementSource(v) == DummySource((<<>> :> Entry("string", v)), <<>>)

\* an iterator over a sequence of sources, or over one source without end
Items(items) == [endless |-> FALSE, items |-> items, again |-> InvalidValue]

Endless(src) == [endless |-> TRUE, items |-> <<>>, again |-> src]

\* next() of the iterator has an i-th element
HasItem(it, i) == it.endless \/ i <= Len(it.items)

ItemAt(it, i) == IF it.endless THEN it.again ELSE it.items[i]

\* SliceSourceValue.Iter
SrcIter(src) ==
    CASE src.kind = "dummy" ->
            IF HasEntry(src) /\ src.Values[src.Path].t = "strings"
            THEN [err |-> NoErr,
                  items |-> Items([i \in 1..Len(src.Values[src.Path].v) |->
                                      ElementSource(src.Values[src.Path].v[i])])]
            ELSE [err |-> ErrInvalidType, items |-> Items(<<>>)]
      [] src.kind = "strings" ->
            [err |-> NoErr, items |-> Items([i \in 1..Len(src.items) |-> StringValue(src.items[i])])]
      [] src.kind = "binary" -> [err |-> NoErr, items |-> Endless(src)]

\* source.(MapSourceValue)
IsMapSource(src) == src.kind = "dummy"

\* the paths of the entries below the node, in the order of one iteration
RECURSIVE InSomeOrder(_)
InSomeOrder(S) ==
    IF S = {} THEN <<>>
    ELSE LET x == CHOOSE y \in S : TRUE IN <<x>> \o InSomeOrder(S \ {x})

\* strings.TrimPrefix(key, d.Path+"."): the segments below the node; one
\* segment is the key's text, several stay the sequence of the segments
KeyText(path, below) ==
    IF Len(below) = Len(path) + 1 THEN Text(Last(below))
    ELSE SubSeq(below, Len(path) + 1, Len(below))

\* MapSourceValue.KeyValues: value.(string) panics on an entry of another type
SrcKeyValues(src) ==
    LET below == {p \in DOMAIN src.Values : IsPrefix(src.Path, p) /\ Len(p) > Len(src.Path)}
        keys == InSomeOrder(below)
    IN  [panic |-> \E p \in below : src.Values[p].t # "string",
         pairs |-> [i \in 1..Len(keys) |->
                      [key |-> StringValue(KeyText(src.Path, keys[i])),
                       value |-> StringValue(src.Values[keys[i]].v)]]]

\* the record of one accessor call on a source node
Call(op, src, key) == [op |-> op, path |-> src.Path, key |-> key]

\* the record of one write to a slot of the target: Set, SetString, SetInt,
\* SetUint, or the assignment made by UnmarshalText
Write == [op |-> "Set", path |-> <<>>, key |-> <<>>]

\* the record of an error coming into being
Failure(err) == [op |-> "Fail", path |-> <<>>, key |-> <<err.cause>>]

Accessors == {"Get", "Iter", "KeyValues", "String", "Int"} \cup SizedOps

----------------------------------------------------------------------------
(* Setters: the closures makeSetterOf builds, as records of what they      *)
(* captured.                                                               *)

setString == [k |-> "setString"]

\* setInt and setUint switch on the kind of the target they are given
setInt(ty) == [k |-> "setInt", ty |-> ty]

setUint(ty) == [k |-> "setUint", ty |-> ty]

setTextUnmarshaler(ty) == [k |-> "text", ty |-> ty]

lazySetter(ty) == [k |-> "lazy", ty |-> ty]

Res(err, val, log) == [err |-> err, val |-> val, log |-> log, panic |-> FALSE]

\* cached.(setter) on a missing entry: nil interface conversion
Panicked(val, log) ==
    [err |-> [cause |-> "panic", on |-> NoType, ctx |-> <<>>],
     val |-> val, log |-> log, panic |-> TRUE]

\* return fmt.Errorf(msg, arg, err) where err has just come into being
Raise(msg, arg, err, val, log) == Res(Wrap(msg, arg, err), val, Append(log, Failure(err)))

RECURSIVE RunSetter(_, _, _, _, _)
RECURSIVE RunStructFields(_, _, _, _, _, _)
RECURSIVE RunSliceElements(_, _, _, _, _, _)
RECURSIVE RunArrayElements(_, _, _, _, _, _)
RECURSIVE RunMapPairs(_, _, _, _, _, _)

\* RunStructFields taking a missing child for a failure of the lookup
RunStructFieldsAbsentFatal(s, source, target, idx, c, log) ==
    IF idx > Len(s.fields) THEN Res(NoErr, target, log)
    ELSE LET field == s.fields[idx]
             got == SrcGet(source, field.Name)
             log2 == Append(log, Call("Get", source, field.Name))
         IN  IF IsErr(got.err)
             THEN Raise("lookup child", field.Name, got.err, target, log2)
             ELSE LET r == RunSetter(s.setters[idx], got.v,
                                     FieldByIndex(target, field.Index), c, log2)
                      t2 == SetByIndex(target, field.Index, r.val)
                  IN  IF r.panic THEN [r EXCEPT !.val = t2]
                      ELSE IF IsErr(r.err)
                      THEN Res(Wrap("set field", field.Name, r.err), t2, r.log)
                      ELSE RunStructFields(s, source, t2, idx + 1, c, r.log)

\* RunStructFields decoding the fields after the one that failed as well
RunStructFieldsKeepsGoing(s, source, target, idx, c, log) ==
    IF idx > Len(s.fields) THEN Res(NoErr, target, log)
    ELSE LET field == s.fields[idx]
             got == SrcGet(source, field.Name)
             log2 == Append(log, Call("Get", source, field.Name))
         IN  IF IsNoValue(got.err)
             THEN RunStructFields(s, source, target, idx + 1, c, log2)
             ELSE IF IsErr(got.err)
             THEN Raise("lookup child", field.Name, got.err, target, log2)
             ELSE LET r == RunSetter(s.setters[idx], got.v,
                                     FieldByIndex(target, field.Index), c, log2)
                      t2 == SetByIndex(target, field.Index, r.val)
                      rest == RunStructFields(s, source, t2, idx + 1, c, r.log)
                  IN  IF r.panic THEN [r EXCEPT !.val = t2]
                      ELSE IF IsErr(r.err)
                      THEN Res(Wrap("set field", field.Name, r.err), rest.val, r.log)
                      ELSE rest

\* the closure returned by makeSetStruct, from field idx on
RunStructFields(s, source, target, idx, c, log) ==
    IF idx > Len(s.fields) THEN Res(NoErr, target, log)
    ELSE LET field == s.fields[idx]
             got == SrcGet(source, field.Name)
             log2 == Append(log, Call("Get", source, field.Name))
         IN  IF IsNoValue(got.err)
             THEN RunStructFields(s, source, target, idx + 1, c, log2)
             ELSE IF IsErr(got.err)
             THEN Raise("lookup child", field.Name, got.err, target, log2)
             ELSE LET r == RunSetter(s.setters[idx], got.v,
                                     FieldByIndex(target, field.Index), c, log2)
                      t2 == SetByIndex(target, field.Index, r.val)
                  IN  IF r.panic THEN [r EXCEPT !.val = t2]
                      ELSE IF IsErr(r.err)
                      THEN Res(Wrap("set field", field.Name, r.err), t2, r.log)
                      ELSE RunStructFields(s, source, t2, idx + 1, c, r.log)

\* RunSliceElements going on with the next element after one has failed
RunSliceElementsKeepsGoing(s, items, target, i, c, log) ==
    IF ~HasItem(items, i) THEN Res(NoErr, target, log)
    ELSE LET grown == Append(target, Zero(s.elemType))
             idx == Len(grown)
             r == RunSetter(s.elementSetter, ItemAt(items, i), grown[idx], c,
                            Append(log, Write))
             t2 == [grown EXCEPT ![idx] = r.val]
             rest == RunSliceElements(s, items, t2, i + 1, c, r.log)
         IN  IF r.panic THEN [r EXCEPT !.val = t2]
             ELSE IF IsErr(r.err)
             THEN Res(Wrap("set element", <<>>, r.err), rest.val, rest.log)
             ELSE rest

\* the closure returned by makeSetSlice, from element i of the iteration on
RunSliceElements(s, items, target, i, c, log) ==
    IF ~HasItem(items, i) THEN Res(NoErr, target, log)
    ELSE LET grown == Append(target, Zero(s.elemType))
             idx == Len(grown)
             r == RunSetter(s.elementSetter, ItemAt(items, i), grown[idx], c,
                            Append(log, Write))
             t2 == [grown EXCEPT ![idx] = r.val]
         IN  IF r.panic THEN [r EXCEPT !.val = t2]
             ELSE IF IsErr(r.err)
             THEN Res(Wrap("set element", <<>>, r.err), t2, r.log)
             ELSE RunSliceElements(s, items, t2, i + 1, c, r.log)

\* RunArrayElements taking a source with too few elements for a failure
RunArrayElementsStrict(s, items, target, idx, c, log) ==
    IF idx > s.elementCount THEN Res(NoErr, target, log)
    ELSE IF ~HasItem(items, idx)
    THEN Res(ErrInvalidType, target, Append(log, Failure(ErrInvalidType)))
    ELSE LET r == RunSetter(s.elementSetter, ItemAt(items, idx), target[idx], c, log)
             t2 == [target EXCEPT ![idx] = r.val]
         IN  IF r.panic THEN [r EXCEPT !.val = t2]
             ELSE IF IsErr(r.err)
             THEN Res(Wrap("set element", <<>>, r.err), t2, r.log)
             ELSE RunArrayElements(s, items, t2, idx + 1, c, r.log)

\* RunArrayElements taking one element more from the sequence than the
\* array has slots
RunArrayElementsOneMore(s, items, target, idx, c, log) ==
    IF idx > s.elementCount + 1 \/ ~HasItem(items, idx) THEN Res(NoErr, target, log)
    ELSE LET spare == idx > s.elementCount
             r == RunSetter(s.elementSetter, ItemAt(items, idx),
                            target[IF spare THEN s.elementCount ELSE idx], c, log)
             t2 == IF spare THEN target ELSE [target EXCEPT ![idx] = r.val]
         IN  IF r.panic THEN [r EXCEPT !.val = t2]
             ELSE IF IsErr(r.err)
             THEN Res(Wrap("set element", <<>>, r.err), t2, r.log)
             ELSE RunArrayElements(s, items, t2, idx + 1, c, r.log)

\* the closure returned by makeSetArray, from index idx on
RunArrayElements(s, items, target, idx, c, log) ==
    IF idx > s.elementCount \/ ~HasItem(items, idx) THEN Res(NoErr, target, log)
    ELSE LET r == RunSetter(s.elementSetter, ItemAt(items, idx), target[idx], c, log)
             t2 == [target EXCEPT ![idx] = r.val]
         IN  IF r.panic THEN [r EXCEPT !.val = t2]
             ELSE IF IsErr(r.err)
             THEN Res(Wrap("set element", <<>>, r.err), t2, r.log)
             ELSE RunArrayElements(s, items, t2, idx + 1, c, r.log)

\* the loop of makeSetMap's closure over the pairs, from pair i on; the
\* result's value is the map under construction
RunMapPairs(s, pairs, mapTarget, i, c, log) ==
    IF i > Len(pairs) THEN Res(NoErr, mapTarget, log)
    ELSE LET k == RunSetter(s.keySetter, pairs[i].key, Zero(s.keyType), c, log)
         IN  IF k.panic THEN k
             ELSE IF IsErr(k.err) THEN Res(Wrap("set key", <<>>, k.err), mapTarget, k.log)
             ELSE LET v == RunSetter(s.valueSetter, pairs[i].value,
                                     Zero(s.valueType), c, k.log)
                  IN  IF v.panic THEN v
                      ELSE IF IsErr(v.err)
                      THEN Res(Wrap("set key", <<>>, v.err), mapTarget, v.log)
                      ELSE RunMapPairs(s, pairs, SetMapIndex(mapTarget, k.val, v.val),
                                       i + 1, c, v.log)

\* the lazy setter of a cycle: cachedSetters.Load(ty), then the loaded setter
RunLazy(s, source, target, c, log) ==
    IF s.ty \notin DOMAIN c THEN Panicked(target, log)
    ELSE RunSetter(c[s.ty], source, target, c, log)

RunString(s, source, target, c, log) ==
    LET r == SrcString(source)
        log2 == Append(log, Call("String", source, <<>>))
    IN  IF IsErr(r.err)
        THEN Raise("get string value", <<>>, r.err, target, log2)
        ELSE Res(NoErr, r.v, Append(log2, Write))

\* reflect.Value.SetInt on a target of the type: the value converted to the
\* width of the target (the values of the scenarios fit into 32 bits)
SetInt(n, ty) ==
    CASE IntWidth(ty) = 1 -> ((n + 128) % 256) - 128
      [] IntWidth(ty) = 2 -> ((n + 32768) % 65536) - 32768
      [] OTHER -> n

\* reflect.Value.SetUint
SetUint(n, ty) ==
    CASE IntWidth(ty) = 1 -> n % 256
      [] IntWidth(ty) = 2 -> n % 65536
      [] OTHER -> n

\* setInt and setUint through the accessor of the target's width
RunSized(s, source, target, c, log) ==
    LET signed == s.k = "setInt"
        r == SrcSized(source, signed, IntWidth(s.ty), log)
        log2 == Append(log, IF source.kind = "binary"
                            THEN ReadCall(signed, IntWidth(s.ty), source, log)
                            ELSE Call(SizedOp(signed, IntWidth(s.ty)), source, <<>>))
    IN  IF IsErr(r.err)
        THEN Raise("get sized int value", <<>>, r.err, target, log2)
        ELSE Res(NoErr, r.v, Append(log2, Write))

\* RunGeneric without the check of the sign
RunGenericUnchecked(s, source, target, c, log) ==
    LET r == SrcInt(source)
        log2 == Append(log, Call("Int", source, <<>>))
    IN  IF IsErr(r.err)
        THEN Raise("get int value", <<>>, r.err, target, log2)
        ELSE Res(NoErr, IF s.k = "setInt" THEN SetInt(r.v, s.ty) ELSE SetUint(r.v, s.ty),
                 Append(log2, Write))

\* setInt and setUint through SourceValue.Int
RunGeneric(s, source, target, c, log) ==
    LET r == SrcInt(source)
        log2 == Append(log, Call("Int", source, <<>>))
    IN  IF IsErr(r.err)
        THEN Raise("get int value", <<>>, r.err, target, log2)
        ELSE IF s.k = "setUint" /\ r.v < 0
        THEN Res(InvalidUint, target, Append(log2, Failure(InvalidUint)))
        ELSE Res(NoErr, IF s.k = "setInt" THEN SetInt(r.v, s.ty) ELSE SetUint(r.v, s.ty),
                 Append(log2, Write))

\* setInt, setUint
RunInt(s, source, target, c, log) ==
    IF IsIntSource(source) /\ IntWidth(s.ty) # 0
    THEN RunSized(s, source, target, c, log)
    ELSE RunGeneric(s, source, target, c, log)

\* the parts of the tokens between the separators, the one begun first
RECURSIVE SplitTokens(_, _, _)
SplitTokens(tokens, sep, part) ==
    IF tokens = <<>> THEN <<part>>
    ELSE IF Head(tokens) = sep THEN <<part>> \o SplitTokens(Tail(tokens), sep, <<>>)
    ELSE SplitTokens(Tail(tokens), sep, Append(part, Head(tokens)))

\* strings.Split(text, sep)
Split(text, sep) ==
    LET parts == SplitTokens(Tokens(text), sep, <<>>)
    IN  [i \in 1..Len(parts) |-> Text(parts[i])]

\* net.ParseIP on a text without colons: four decimal numbers of at most 255,
\* separated by dots
ParseIP(text) ==
    LET parts == SplitTokens(Tokens(text), ".", <<>>)
    IN  IF /\ Len(parts) = 4
           /\ \A i \in 1..4 : AllDigits(parts[i]) /\ Len(parts[i]) <= 3
                                /\ DigitsVal(parts[i], 0) <= 255
        THEN [err |-> NoErr, v |-> [i \in 1..4 |-> DigitsVal(parts[i], 0)]]
        ELSE [err |-> ParseError, v |-> <<>>]

\* (*Tags).UnmarshalText and (*net.IP).UnmarshalText
UnmarshalText(ty, text) ==
    CASE ty = "Tags" -> [err |-> NoErr, v |-> Split(text, Comma)]
      [] ty = "IP" -> IF text = "" THEN [err |-> NoErr, v |-> <<>>] ELSE ParseIP(text)

\* setTextUnmarshaler
RunText(s, source, target, c, log) ==
    LET r == SrcString(source)
        log2 == Append(log, Call("String", source, <<>>))
        m == UnmarshalText(s.ty, r.v)
    IN  IF IsErr(r.err)
        THEN Raise("get string value", <<>>, r.err, target, log2)
        ELSE IF IsErr(m.err) THEN Res(m.err, target, Append(log2, Failure(m.err)))
        ELSE Res(NoErr, m.v, Append(log2, Write))

\* makeSetPointer's closure attaching the new value before it is decoded
RunPointerAttachesFirst(s, source, target, c, log) ==
    LET r == RunSetter(s.pointeeSetter, source, Zero(s.pointeeType), c, log)
    IN  IF r.panic THEN [r EXCEPT !.val = target]
        ELSE [r EXCEPT !.val = <<r.val>>, !.log = Append(@, Write)]

\* the closure returned by makeSetPointer
RunPointer(s, source, target, c, log) ==
    LET r == RunSetter(s.pointeeSetter, source, Zero(s.pointeeType), c, log)
    IN  IF r.panic \/ IsErr(r.err) THEN [r EXCEPT !.val = target]
        ELSE [r EXCEPT !.val = <<r.val>>, !.log = Append(@, Write)]

RunStruct(s, source, target, c, log) ==
    IF ~IsContainer(source)
    THEN Res(ErrInvalidType, target, Append(log, Failure(ErrInvalidType)))
    ELSE RunStructFields(s, source, target, 1, c, log)

RunSlice(s, source, target, c, log) ==
    IF ~IsSlice(source)
    THEN Res(ErrInvalidType, target, Append(log, Failure(ErrInvalidType)))
    ELSE LET it == SrcIter(source)
             log2 == Append(log, Call("Iter", source, <<>>))
         IN  IF IsErr(it.err) THEN Raise("as iter", <<>>, it.err, target, log2)
             ELSE RunSliceElements(s, it.items, target, 1, c, log2)

RunArray(s, source, target, c, log) ==
    IF ~IsSlice(source)
    THEN Res(ErrInvalidType, target, Append(log, Failure(ErrInvalidType)))
    ELSE LET it == SrcIter(source)
             log2 == Append(log, Call("Iter", source, <<>>))
         IN  IF IsErr(it.err) THEN Raise("as iter", <<>>, it.err, target, log2)
             ELSE RunArrayElements(s, it.items, target, 1, c, log2)

\* RunMap inserting the pairs into the map the target holds
RunMapMerges(s, source, target, c, log) ==
    IF ~IsMapSource(source)
    THEN Res(ErrInvalidType, target, Append(log, Failure(ErrInvalidType)))
    ELSE LET kv == SrcKeyValues(source)
             log2 == Append(log, Call("KeyValues", source, <<>>))
         IN  IF kv.panic THEN Panicked(target, log2)
             ELSE LET r == RunMapPairs(s, kv.pairs, target, 1, c, log2)
                  IN  IF r.panic THEN [r EXCEPT !.val = target]
                      ELSE [r EXCEPT !.log = Append(@, Write)]

\* the target is set to the new map only after every pair was decoded
RunMap(s, source, target, c, log) ==
    IF ~IsMapSource(source)
    THEN Res(ErrInvalidType, target, Append(log, Failure(ErrInvalidType)))
    ELSE LET kv == SrcKeyValues(source)
             log2 == Append(log, Call("KeyValues", source, <<>>))
         IN  IF kv.panic THEN Panicked(target, log2)
             ELSE LET r == RunMapPairs(s, kv.pairs, MapOf({}), 1, c, log2)
                  IN  IF r.panic \/ IsErr(r.err) THEN [r EXCEPT !.val = target]
                      ELSE [r EXCEPT !.log = Append(@, Write)]

\* setter(source, target) with the cache as it is when the setter runs
RunSetter(s, source, target, c, log) ==
    CASE s.k = "lazy" -> RunLazy(s, source, target, c, log)
      [] s.k = "setString" -> RunString(s, source, target, c, log)
      [] s.k \in {"setInt", "setUint"} -> RunInt(s, source, target, c, log)
      [] s.k = "text" -> RunText(s, source, target, c, log)
      [] s.k = "ptr" -> RunPointer(s, source, target, c, log)
      [] s.k = "struct" -> RunStruct(s, source, target, c, log)
      [] s.k = "slice" -> RunSlice(s, source, target, c, log)
      [] s.k = "array" -> RunArray(s, source, target, c, log)
      [] s.k = "map" -> RunMap(s, source, target, c, log)

----------------------------------------------------------------------------
(* makeSetterOf: what a type's setter is built from.                       *)

\* makeSetterOf going by the kind of the type alone
NoTextHook(ty) == FALSE

\* reflect.PointerTo(ty).Implements(tyTextUnmarshaler)
HasTextHook(ty) == ty \in TextTypes

Supported(ty) ==
    \/ HasTextHook(ty)
    \/ Kind(ty) \in {"String", "Int", "Uint", "Pointer", "Struct", "Slice", "Array", "Map"}

\* the types whose setters makeSetterOf asks setterOf for, in order
Children(ty) ==
    IF HasTextHook(ty) THEN <<>> ELSE
    CASE Kind(ty) = "Pointer" -> <<Elem(ty)>>
      [] Kind(ty) = "Slice" -> <<Elem(ty)>>
      [] Kind(ty) = "Array" -> <<Elem(ty)>>
      [] Kind(ty) = "Map" -> <<Key(ty), Elem(ty)>>
      [] Kind(ty) = "Struct" ->
            LET fields == fieldsToSerialize(ty)
            IN  [i \in 1..Len(fields) |-> fields[i].Type]
      [] OTHER -> <<>>

makeSetPointer(ty, setters) ==
    [k |-> "ptr", pointeeType |-> Elem(ty), pointeeSetter |-> setters[1]]

makeSetStruct(ty, setters) ==
    [k |-> "struct", ty |-> ty, fields |-> fieldsToSerialize(ty), setters |-> setters]

makeSetSlice(ty, setters) ==
    [k |-> "slice", elemType |-> Elem(ty), elementSetter |-> setters[1]]

makeSetArray(ty, setters) ==
    [k |-> "array", elementCount |-> ArrayLen(ty), elementSetter |-> setters[1]]

makeSetMap(ty, setters) ==
    [k |-> "map", keyType |-> Key(ty), valueType |-> Elem(ty),
     keySetter |-> setters[1], valueSetter |-> setters[2]]

\* the setter of ty, given the setters of its children
makeSetterOf(ty, setters) ==
    IF HasTextHook(ty) THEN setTextUnmarshaler(ty) ELSE
    CASE Kind(ty) = "String" -> setString
      [] Kind(ty) = "Int" -> setInt(ty)
      [] Kind(ty) = "Uint" -> setUint(ty)
      [] Kind(ty) = "Pointer" -> makeSetPointer(ty, setters)
      [] Kind(ty) = "Struct" -> makeSetStruct(ty, setters)
      [] Kind(ty) = "Slice" -> makeSetSlice(ty, setters)
      [] Kind(ty) = "Array" -> makeSetArray(ty, setters)
      [] Kind(ty) = "Map" -> makeSetMap(ty, setters)

----------------------------------------------------------------------------
(* One Unmarshal call of one goroutine, as a machine whose steps are the   *)
(* accesses to the shared cache: every setterOf entry is one Load, every   *)
(* setterOf return is one Store.  The stack holds the makeSetterOf frames. *)

Procs == {1, 2}

NoSetter == [k |-> "none"]

NoCall == [ty |-> NoType, src |-> InvalidValue, target |-> <<>>]

NoRes == Res(NoErr, <<>>, <<>>)

Frame(ty) == [ty |-> ty, setters |-> <<>>]

Idle == [pc |-> "idle", call |-> NoCall, stack |-> <<>>, inC |-> {},
         made |-> <<>>, steps |-> 0, setter |-> NoSetter, res |-> NoRes]

Top(ps) == Last(ps.stack)

\* the context a frame adds to an error of the child it is waiting for
WrapFrame(f, err) ==
    CASE Kind(f.ty) = "Struct" ->
            Wrap("setter for field", fieldsToSerialize(f.ty)[Len(f.setters) + 1].Name, err)
      [] Kind(f.ty) \in {"Slice", "Array"} -> Wrap("setter for element type", <<f.ty>>, err)
      [] Kind(f.ty) = "Map" ->
            Wrap(IF Len(f.setters) = 0 THEN "setter for key type" ELSE "setter for value type",
                 <<f.ty>>, err)
      [] OTHER -> err

RECURSIVE WrapFrames(_, _)
WrapFrames(stack, err) ==
    IF stack = <<>> THEN err
    ELSE WrapFrames(Front(stack), WrapFrame(Last(stack), err))

\* a setter reaches its caller: the frame below, or Unmarshal itself
Deliver(ps, s) ==
    IF ps.stack = <<>> THEN [ps EXCEPT !.pc = "run", !.setter = s]
    ELSE [ps EXCEPT !.stack[Len(ps.stack)].setters = Append(@, s)]

\* an error of makeSetterOf returns through every frame; nothing is stored
Abort(ps, err) ==
    [ps EXCEPT !.pc = "done", !.stack = <<>>,
               !.res = Res(WrapFrames(ps.stack, err), ps.call.target, <<>>)]

\* one more entry into or return from setterOf in this call
Entered(ps) == [ps EXCEPT !.steps = @ + 1]

\* setterOf without the in-construction check
setterOfNoCycleCheck(ps0, c, ty) ==
    LET ps == Entered(ps0) IN
    IF ty \in DOMAIN c THEN Deliver(ps, c[ty])
    ELSE LET marked == [ps EXCEPT !.inC = @ \cup {ty}, !.made = Append(@, ty)]
         IN  IF ~Supported(ty) THEN Abort(marked, NotSupportedError(ty))
             ELSE [marked EXCEPT !.stack = Append(@, Frame(ty))]

\* setterOf up to the call of makeSetterOf: cache hit, cycle, or a new frame
setterOf(ps0, c, ty) ==
    LET ps == Entered(ps0) IN
    IF ty \in DOMAIN c THEN Deliver(ps, c[ty])
    ELSE IF ty \in ps.inC THEN Deliver(ps, lazySetter(ty))
    ELSE LET marked == [ps EXCEPT !.inC = @ \cup {ty}, !.made = Append(@, ty)]
         IN  IF ~Supported(ty) THEN Abort(marked, NotSupportedError(ty))
             ELSE [marked EXCEPT !.stack = Append(@, Frame(ty))]

\* cachedSetters.Store
Store(c, ty, s) == [t \in DOMAIN c \cup {ty} |-> IF t = ty THEN s ELSE c[t]]

\* setterOf returning the setter of makeSetterOf without storing it
ReturnUnstored(ps, c) ==
    [ps |-> Deliver(Entered([ps EXCEPT !.stack = Front(@)]),
                    makeSetterOf(Top(ps).ty, Top(ps).setters)),
     cache |-> c]

\* setterOf after makeSetterOf succeeded: store the setter and return it
StoreAndReturn(ps, c) ==
    LET f == Top(ps)
        s == makeSetterOf(f.ty, f.setters)
    IN  [ps |-> Deliver(Entered([ps EXCEPT !.stack = Front(@)]), s),
         cache |-> Store(c, f.ty, s)]

\* Unmarshal: the setter of the target's type is asked for
Unmarshal(c, call) ==
    setterOf([Idle EXCEPT !.pc = "compile", !.call = call], c, call.ty)

\* Unmarshal: the setter is applied to the source and the target
Apply(ps, c) ==
    [ps EXCEPT !.pc = "done",
               !.res = RunSetter(ps.setter, ps.call.src, ps.call.target, c, <<>>)]

NeedsChild(ps) == Len(Top(ps).setters) < Len(Children(Top(ps).ty))

NextChild(ps) == Children(Top(ps).ty)[Len(Top(ps).setters) + 1]

\* the next step of a call in progress
Step(ps, c) ==
    IF ps.pc = "run" THEN [ps |-> Apply(ps, c), cache |-> c]
    ELSE IF NeedsChild(ps) THEN [ps |-> setterOf(ps, c, NextChild(ps)), cache |-> c]
    ELSE StoreAndReturn(ps, c)

RECURSIVE RunToEnd(_, _)
RunToEnd(ps, c) ==
    IF ps.pc = "done" THEN [ps |-> ps, cache |-> c]
    ELSE LET r == Step(ps, c) IN RunToEnd(r.ps, r.cache)

EmptyCache == [t \in {} |-> NoSetter]

\* the call run by itself in a fresh process
Alone(call) == RunToEnd(Unmarshal(EmptyCache, call), EmptyCache).ps.res

----------------------------------------------------------------------------
(* The sources and calls of the decode scenarios.                          *)

Sha == <<"aaaa", "bbbb", "cccc", "dddd", "eeee">>

ParentPath(i) == [j \in 1..i |-> <<"Parent">>]

\* k commits, each the parent of the one before; the last has no parent
ChainSource(k) ==
    DummySource(
        [p \in {Append(ParentPath(i), <<"Sha1">>) : i \in 0..(k - 1)} \cup {ParentPath(k)} |->
            IF p = ParentPath(k) THEN NilEntry ELSE Entry("string", Sha[Len(p)])],
        <<>>)

\* a commit without Sha1 whose parent has one
HeadlessSource ==
    DummySource((<<<<"Sha1">>>> :> NilEntry)
                @@ (<<<<"Parent">>, <<"Sha1">>>> :> Entry("string", "bbbb"))
                @@ (<<<<"Parent">>, <<"Parent">>>> :> NilEntry),
                <<>>)

\* a commit whose parent's Sha1 is no string
BrokenSource ==
    DummySource((<<<<"Sha1">>>> :> Entry("string", "aaaa"))
                @@ (<<<<"Parent">>, <<"Sha1">>>> :> Entry("int64", "7"))
                @@ (<<<<"Parent">>, <<"Parent">>>> :> NilEntry),
                <<>>)

TreeSource ==
    DummySource((<<<<"Tag">>>> :> Entry("string", "root"))
                @@ (<<<<"Kids">>>> :> Entry("strings", <<"x">>)),
                <<>>)

\* a ring whose Prev is an empty list
RingSource ==
    DummySource((<<<<"Tag">>>> :> Entry("string", "r"))
                @@ (<<<<"Prev">>>> :> Entry("strings", <<>>)),
                <<>>)

\* a dictionary with one entry below Sub
DictSource == DummySource((<<<<"Sub">>, <<"k">>>> :> Entry("string", "v")), <<>>)

\* a dictionary with nothing below Sub
EmptyDictSource == DummySource((<<<<"Other">>>> :> Entry("string", "v")), <<>>)

MkCall(ty, src, target) == [ty |-> ty, src |-> src, target |-> target]

OldNode == <<"old", <<<<"oldparent", <<>>>>>>>>

Calls ==
    {MkCall("Node", ChainSource(k), Zero("Node")) : k \in 1..MaxChain}
    \cup {MkCall("Node", HeadlessSource, OldNode),
          MkCall("Node", BrokenSource, OldNode),
          MkCall("*Node", ChainSource(1), <<>>),
          MkCall("*Node", BrokenSource, <<OldNode>>),
          MkCall("Bad", ChainSource(1), Zero("Bad")),
          MkCall("*Bad", ChainSource(1), <<>>),
          MkCall("Tree", TreeSource, Zero("Tree")),
          MkCall("Ring", RingSource, Zero("Ring")),
          MkCall("Dict", DictSource, Zero("Dict")),
          MkCall("Dict", EmptyDictSource, Zero("Dict"))}

----------------------------------------------------------------------------
(* The sources and calls of the container, integer and text scenarios.     *)

\* a node holding one value
Leaf(t, v) == DummySource((<<>> :> Entry(t, v)), <<>>)

\* the stream 0, 1, 2, ... of n bytes
Bytes(n) == [i \in 1..n |-> i - 1]

\* the lengths of the streams: empty, short by one byte of the thirty bytes
\* of the eight sized integers, exact, and longer
StreamLens == <<0, 1, 2, 3, 29, 30, 31>>

OldInts == [i \in 1..8 |-> 99]

\* the text of an address and of a port
HostSource(host, port, count) ==
    DummySource((<<<<"Host">>>> :> host) @@ (<<<<"Port">>>> :> port)
                @@ (<<<<"Count">>>> :> count), <<>>)

GoodIP == Entry("string", "1.2.3.4")

BadIP == Entry("string", "1.2.x")

OldHost == <<<<9, 9, 9, 9>>, <<8080>>, 7>>

Hosts == <<GoodIP, BadIP, NilEntry>>

Ports == <<Entry("int64", 80), Entry("string", "http"), NilEntry>>

Counts == <<Entry("int64", 3), Entry("int64", -5)>>

ArticleSource ==
    DummySource((<<<<"Text">>>> :> Entry("string", "hi"))
                @@ (<<<<"Tags">>>> :> Entry("strings", <<"a", "b">>)), <<>>)

\* ?Text=hi&Tags[]=a&Tags[]=b
ArticleQuery == QuerySource((<<"Text">> :> <<"hi">>) @@ (<<"Tags", "[]">> :> <<"a", "b">>))

\* ?Type=t&Values=v
ConfQuery == QuerySource((<<"Type">> :> <<"t">>) @@ (<<"Values">> :> <<"v">>))

ConfSource ==
    DummySource((<<<<"Type">>>> :> Entry("string", "t"))
                @@ (<<<<"Values">>, <<"k">>>> :> Entry("string", "v"))
                @@ (<<<<"Values">>, <<"j">>>> :> Entry("string", "w")), <<>>)

\* the entries below the root of a map source
PairsSource(k1, k2) ==
    DummySource((<<k1>> :> Entry("string", "v")) @@ (<<k2>> :> Entry("string", "w")), <<>>)

OldMap == MapOf({<<"old", "o">>})

\* a tree with two children that are no trees
TwoKidsSource ==
    DummySource((<<<<"Tag">>>> :> Entry("string", "root"))
                @@ (<<<<"Kids">>>> :> Entry("strings", <<"x", "y">>)),
                <<>>)

Numerals == <<"7", "-5", "+5", "127", "128", "300", "x", "">>

IntTypes == <<"int8", "int16", "int32", "int64", "int",
              "uint8", "uint16", "uint32", "uint64", "uint">>

\* the calls are kept in sequences: Op(x, y) for every x of xs and y of ys
Each2(Op(_, _), xs, ys) ==
    [k \in 1..(Len(xs) * Len(ys)) |->
        Op(xs[((k - 1) \div Len(ys)) + 1], ys[((k - 1) % Len(ys)) + 1])]

SliceOf(items, old) == MkCall("[]string", Leaf("strings", items), old)

SliceCalls ==
    Each2(SliceOf, <<<<>>, <<"a">>, <<"a", "b">>>>, <<<<>>, <<"x">>>>)
    \o <<MkCall("[]string", StringSliceValue(<<"a", "b">>), <<>>),
         MkCall("[]string", Leaf("string", "a"), <<"x">>),
         MkCall("[]string", StringValue("a"), <<"x">>),
         MkCall("Article", ArticleSource, Zero("Article")),
         MkCall("Article", ArticleQuery, Zero("Article")),
         MkCall("Tree", TwoKidsSource, Zero("Tree")),
         MkCall("Node", StringSliceValue(<<"x">>), OldNode),
         MkCall("Node", StringValue("x"), OldNode),
         MkCall("[]string", InvalidValue, <<"x">>)>>

ArrayOf(ty, items) == MkCall(ty, Leaf("strings", items), Zero(ty))

ArrayOfBytes(ty, n) == MkCall(ty, BinarySource(Bytes(n)), Zero(ty))

ArrayCalls ==
    Each2(ArrayOf, <<"[2]string", "[4]string", "[2]uint8">>,
          <<<<>>, <<"a">>, <<"a", "b", "c">>>>)
    \o Each2(ArrayOfBytes, <<"[2]uint8">>, StreamLens)
    \o <<MkCall("[2]string", StringValue("a"), Zero("[2]string")),
         MkCall("[2]string", Leaf("string", "a"), Zero("[2]string")),
         MkCall("[2]string", StringSliceValue(<<"a", "b", "c">>), Zero("[2]string"))>>

MapOfInt8(k1, k2) == MkCall("map[int8]string", PairsSource(k1, k2), OldMap)

MapCalls ==
    <<MkCall("map[string]string", PairsSource(<<"k">>, <<"j">>), MapOf({})),
      MkCall("map[string]string", PairsSource(<<"k">>, <<"j">>), OldMap)>>
    \o Each2(MapOfInt8, <<<<"7">>>>, <<<<"8">>, <<"k">>, <<"3", "0", "0">>>>)
    \o <<MkCall("map[string]string", StringValue("a"), OldMap),
         MkCall("map[string]string", StringSliceValue(<<"a">>), OldMap),
         MkCall("map[string]Dict", PairsSource(<<"k">>, <<"j">>), OldMap),
         MkCall("Conf", ConfSource, <<"", OldMap>>),
         MkCall("Conf", ConfQuery, <<"", OldMap>>)>>

\* the query of a request: Tags[] and Tags, each absent (<<>>) or with values
TagsQuery(bracketed, plain) ==
    QuerySource([k \in {<<"Text">>} \cup {<<"Tags", "[]">> : i \in 1..Len(bracketed)}
                                   \cup {<<"Tags">> : i \in 1..Len(plain)} |->
                    CASE k = <<"Text">> -> <<"hi">>
                      [] k = <<"Tags", "[]">> -> bracketed[1]
                      [] OTHER -> plain[1]])

QueryOf(bracketed, plain) == MkCall("Article", TagsQuery(bracketed, plain), Zero("Article"))

QueryCalls ==
    Each2(QueryOf, <<<<>>, <<<<"c">>>>, <<<<"b", "a">>>>>>,
                   <<<<>>, <<<<"a">>>>, <<<<"a", "b">>>>, <<<<"b", "a", "b">>>>>>)

\* a string read from the values of one key of a request
StringOfList(ty, items) == MkCall(ty, StringSliceValue(items), "old")

ScalarCalls ==
    Each2(StringOfList, <<"string">>, <<<<>>, <<"a">>, <<"a", "b">>>>)
    \o <<MkCall("string", StringValue("a"), "old"),
         MkCall("string", InvalidValue, "old")>>

IntOfText(ty, n) == MkCall(ty, StringValue(n), 99)

IntOfEntry(ty, n) == MkCall(ty, Leaf("int64", n), 99)

IntOfBytes(ty, n) == MkCall(ty, BinarySource(Bytes(n)), 99)

IntOfList(ty, items) == MkCall(ty, StringSliceValue(items), 99)

IntsOfBytes(ty, n) == MkCall(ty, BinarySource(Bytes(n)), OldInts)

IntCalls ==
    Each2(IntOfText, IntTypes, Numerals)
    \o Each2(IntOfEntry, IntTypes, <<7, -5, 300>>)
    \o Each2(IntOfBytes, IntTypes, <<0, 1, 8>>)
    \o Each2(IntOfList, <<"int8", "uint">>, <<<<>>, <<"-5">>, <<"7", "8">>>>)
    \o Each2(IntsOfBytes, <<"Ints">>, StreamLens)
    \o <<MkCall("int8", Leaf("string", "a"), 99),
         MkCall("uint", Leaf("string", "a"), 99),
         MkCall("Ints", DummySource((<<<<"Int16">>>> :> NilEntry)
                                    @@ (<<<<"Uint8">>>> :> Entry("int64", 300)), <<>>),
                OldInts)>>

HostPort(host, port) == <<host, port>>

HostOf(hp, count) == HostSource(hp[1], hp[2], count)

HostSources == Each2(HostOf, Each2(HostPort, Hosts, Ports), Counts)

HostCall(src, old) == MkCall("Host", src, old)

TextCalls ==
    Each2(HostCall, HostSources, <<Zero("Host"), OldHost>>)
    \o <<MkCall("Tags", Leaf("string", "a,b"), <<"x">>),
         MkCall("Tags", Leaf("string", ""), <<"x">>),
         MkCall("Tags", Leaf("strings", <<"a", "b">>), <<"x">>),
         MkCall("Tags", Leaf("int64", 7), <<"x">>),
         MkCall("Tags", StringValue("a,,"), <<>>),
         MkCall("Tags", StringSliceValue(<<"a", "b">>), <<"x">>),
         MkCall("IP", StringValue("1.2.3.4"), <<>>),
         MkCall("IP", StringValue("256.2.3.4"), <<9, 9, 9, 9>>),
         MkCall("IP", Leaf("strings", <<"1", "2">>), <<9, 9, 9, 9>>),
         MkCall("IP", InvalidValue, <<9, 9, 9, 9>>)>>

UnsupportedCalls ==
    <<MkCall("func", Leaf("string", "a"), <<>>),
      MkCall("Bad", ChainSource(1), Zero("Bad")),
      MkCall("*Bad", ChainSource(1), <<>>)>>

ShapeCalls == SliceCalls \o ArrayCalls \o MapCalls \o IntCalls \o TextCalls
              \o UnsupportedCalls \o QueryCalls \o ScalarCalls

----------------------------------------------------------------------------
(* The struct shapes field resolution is applied to.                       *)

Names == {"A", "B"}

TagOptions == {<<>>, SkipTag, <<"A">>, <<"B">>, <<Comma, "o">>, <<"A", Comma, "o">>}

EmbedTags == {<<>>, SkipTag, <<"A">>, <<Comma, "o">>}

RootDecls ==
    {Decl(<<n>>, tag, FALSE, TRUE, "string") : n \in Names, tag \in TagOptions}
    \cup {Decl(<<"x">>, <<"A">>, FALSE, FALSE, "string")}
    \cup {Decl(<<e>>, tag, TRUE, TRUE, e) : e \in {"E1", "E2"}, tag \in EmbedTags}
    \cup {Decl(<<"E1">>, <<>>, TRUE, TRUE, "*E1")}

\* Go rejects a struct that declares a field name twice
DistinctNames(fields) ==
    \A i, j \in 1..Len(fields) : fields[i].name = fields[j].name => i = j

RootShapes ==
    UNION {{f \in [1..n -> RootDecls] : DistinctNames(f)} : n \in 1..MaxFields}

Embedded(ty) == Decl(<<ty>>, <<>>, TRUE, TRUE, ty)

E1Shapes ==
    {<<Plain("A", "string")>>,
     <<Decl(<<"A">>, <<"A">>, FALSE, TRUE, "string")>>,
     <<Plain("A", "string"), Decl(<<"B">>, <<"A">>, FALSE, TRUE, "string")>>,
     <<Embedded("E3"), Decl(<<"A">>, <<"B">>, FALSE, TRUE, "string")>>,
     <<Decl(<<"A">>, SkipTag, FALSE, TRUE, "string"), Plain("B", "string")>>}

E2Shapes ==
    {<<Plain("A", "string")>>,
     <<Decl(<<"B">>, <<"A">>, FALSE, TRUE, "string")>>,
     <<Embedded("E3")>>}

Shapes(r, e1, e2) ==
    [t \in StructIds |->
        CASE t = "Node" -> NodeFields
          [] t = "Bad" -> BadFields
          [] t = "Tree" -> TreeFields
          [] t = "Ring" -> RingFields
          [] t = "Dict" -> DictFields
          [] t = "E3" -> E3Fields
          [] t = "Ints" -> IntsFields
          [] t = "Host" -> HostFields
          [] t = "Article" -> ArticleFields
          [] t = "Conf" -> ConfFields
          [] t = "R" -> r
          [] t = "E1" -> e1
          [] t = "E2" -> e2]

\* the sources the resolved struct is decoded from
LabValues(nilNames) ==
    [p \in {<<<<n>>>> : n \in Names} |->
        IF p[1][1] \in nilNames THEN NilEntry ELSE Entry("string", p[1][1])]

LabSources == {DummySource(LabValues(nn), <<>>) : nn \in {{}, {"A"}}}

LabOff == [phase |-> "off", cands |-> {}, fields |-> <<>>, res |-> NoRes,
           src |-> InvalidValue]

----------------------------------------------------------------------------
(* The responses of package response and the Handler of package gum.       *)

StatusNoContent == 204

StatusBadRequest == 400

StatusInternalServerError == 500

\* the most parameters a wrapped function has
MaxParams == 3

\* http.Header: a map from header names to their values
NoHeader == [k \in {} |-> ""]

\* maps.Copy(dst, src)
Copy(dst, src) ==
    [k \in DOMAIN dst \cup DOMAIN src |-> IF k \in DOMAIN src THEN src[k] ELSE dst[k]]

\* a Response or a Lazy: lazy names the encoder of a Lazy ("" for a
\* Response), body is nil (<<>>) or what is written, ok whether the value of
\* a Lazy can be encoded
Handle(lazy, body, ok) ==
    [lazy |-> lazy, statusCode |-> 0, header |-> NoHeader, body |-> body, ok |-> ok]

\* response.New
New(body) == Handle("", body, TRUE)

Raw(content) == New(<<content>>)

NoContent == New(<<>>)

\* Response.WithStatusCode, Lazy.WithStatusCode
WithStatusCode(r, statusCode) == [r EXCEPT !.statusCode = statusCode]

\* Response.SetHeader, Lazy.SetHeader
SetHeader(r, key, value) == [r EXCEPT !.header = Copy(@, key :> value)]

\* Response.UpdateWith, Lazy.UpdateWith
UpdateWith(r, statusCode, header) ==
    [r EXCEPT !.statusCode = IF statusCode > 0 THEN statusCode ELSE @,
              !.header = Copy(@, header)]

\* response.Text
ResponseText(content) == SetHeader(Raw(content), "Content-Type", "text/plain; charset=utf8")

\* response.Error
Error(err, statusCode) == WithStatusCode(ResponseText(err), statusCode)

\* response.JSON, response.XML, response.Encoded
JSON(value, ok) == Handle("json", <<value>>, ok)

XML(value, ok) == Handle("xml", <<value>>, ok)

Encoded(value, ok) == Handle("encoded", <<value>>, ok)

\* the http.ResponseWriter of the tests: headers, status code, body
NoWriter == [header |-> NoHeader, statusCode |-> 0, body |-> <<>>]

\* Response.ServeHTTP
ServeResponse(r, w) ==
    LET statusCode == IF r.statusCode = 0 /\ r.body = <<>> THEN StatusNoContent
                      ELSE r.statusCode
    IN  [header |-> Copy(w.header, r.header),
         statusCode |-> IF statusCode > 0 THEN statusCode ELSE w.statusCode,
         body |-> w.body \o r.body]

\* the body function of JSON
JSONBody(l, statusCode, header) ==
    IF ~l.ok THEN Error("encoding json", StatusInternalServerError)
    ELSE SetHeader(UpdateWith(Raw(l.body[1]), statusCode, header),
                   "Content-Type", "application/xml; charset=utf8")

\* the body function of XML
XMLBody(l, statusCode, header) ==
    IF ~l.ok THEN Error("encoding xml", StatusInternalServerError)
    ELSE SetHeader(UpdateWith(Raw(l.body[1]), statusCode, header),
                   "Content-Type", "application/xml; charset=utf8")

\* acceptSlice.Negotiate("application/json", "application/xml"): the content
\* types it can answer; for a header that names neither, an error ("none")
\* or no content type
Negotiate(accept) ==
    CASE accept = "application/json" -> {"application/json"}
      [] accept = "application/xml" -> {"application/xml"}
      [] OTHER -> {"none", ""}

\* the body function of Encoded; the Lazy it chooses is updated and served
EncodedBody(l, ctype, statusCode, header) ==
    CASE ctype = "none" -> Error("negotiate", StatusBadRequest)
      [] ctype = "application/xml" ->
            LET x == UpdateWith(XML(l.body[1], l.ok), statusCode, header)
            IN  XMLBody(x, x.statusCode, x.header)
      [] OTHER ->
            LET j == UpdateWith(JSON(l.body[1], l.ok), statusCode, header)
            IN  JSONBody(j, j.statusCode, j.header)

\* Lazy.ServeHTTP, Response.ServeHTTP
Serve(h, ctype, w) ==
    CASE h.lazy = "json" -> ServeResponse(JSONBody(h, h.statusCode, h.header), w)
      [] h.lazy = "xml" -> ServeResponse(XMLBody(h, h.statusCode, h.header), w)
      [] h.lazy = "encoded" ->
            ServeResponse(EncodedBody(h, ctype, h.statusCode, h.header), w)
      [] OTHER -> ServeResponse(h, w)

\* a parameter of the wrapped function: does its extractor succeed on the
\* request, does its value implement io.Closer
ParamKinds == [ok : BOOLEAN, closer : BOOLEAN]

ParamLists == UNION {[1..n -> ParamKinds] : n \in 0..MaxParams}

\* the settings made on a Lazy before it is returned
Settings ==
    <<[statusCode |-> 0, header |-> NoHeader],
      [statusCode |-> 201, header |-> ("Content-Type" :> "text/csv")],
      [statusCode |-> 0, header |-> ("X-Id" :> "7")]>>

Lazies ==
    <<JSON("{}", TRUE), JSON("{}", FALSE), XML("<a/>", TRUE),
      Encoded("{}", TRUE), Encoded("{}", FALSE)>>

SetUp(l, setting) == UpdateWith(l, setting.statusCode, setting.header)

\* the outputs of the wrapped function, as mapOutputs sees them
Outputs(result, failed) == [result |-> result, failed |-> failed]

Results ==
    <<<<>>, <<NoContent>>, <<ResponseText("hi")>>,
      <<WithStatusCode(ResponseText("made"), 201)>>>>
    \o Each2(LAMBDA l, t : <<SetUp(l, t)>>, Lazies, Settings)

AllOutputs == Each2(Outputs, Results, <<FALSE, TRUE>>)

Accepts == <<"application/json", "application/xml", "image/png">>

\* an event of a request: an extractor ran, the function was called, a
\* response was served, a parameter was closed
Event(op, n) == [op |-> op, n |-> n]

NoRequest ==
    [pc |-> "idle", params |-> <<>>, outputs |-> Outputs(<<>>, FALSE), ctype |-> "",
     got |-> 0, closing |-> 0, events |-> <<>>, w |-> NoWriter]

----------------------------------------------------------------------------
(* Concurrent Unmarshal calls on the shared cache.                         *)

\* nothing has happened yet
NoHist == [calls |-> 0, failed |-> FALSE]

Init ==
    /\ structs = Shapes(<<Plain("A", "string")>>, <<Plain("A", "string")>>,
                        <<Plain("A", "string")>>)
    /\ cache = EmptyCache
    /\ procs = [p \in Procs |-> Idle]
    /\ hist = NoHist
    /\ lab = LabOff
    /\ srv = NoRequest

Busy(p) == procs[p].pc \in {"compile", "run"}

Failed(ps) == ps.pc = "done" /\ IsErr(ps.res.err) /\ ps.res.err.cause = "NotSupportedError"

Advance(p, ps) ==
    /\ procs' = [procs EXCEPT ![p] = ps]
    /\ hist' = [calls |-> IF Busy(p) THEN hist.calls ELSE hist.calls + 1,
                failed |-> hist.failed \/ Failed(ps)]

StartCall(p) ==
    /\ ~Busy(p)
    /\ hist.calls < MaxCalls
    /\ \E call \in Calls : Advance(p, Unmarshal(cache, call))
    /\ UNCHANGED <<structs, cache, lab, srv>>

CompileChild(p) ==
    /\ procs[p].pc = "compile"
    /\ NeedsChild(procs[p])
    /\ Advance(p, setterOf(procs[p], cache, NextChild(procs[p])))
    /\ UNCHANGED <<structs, cache, lab, srv>>

StoreSetter(p) ==
    /\ procs[p].pc = "compile"
    /\ ~NeedsChild(procs[p])
    /\ LET r == StoreAndReturn(procs[p], cache)
       IN  Advance(p, r.ps) /\ cache' = r.cache
    /\ UNCHANGED <<structs, lab, srv>>

ApplySetter(p) ==
    /\ procs[p].pc = "run"
    /\ Advance(p, Apply(procs[p], cache))
    /\ UNCHANGED <<structs, cache, lab, srv>>

Next == \E p \in Procs : StartCall(p) \/ CompileChild(p) \/ StoreSetter(p) \/ ApplySetter(p)

Spec == Init /\ [][Next]_vars

\* one goroutine alone: every Unmarshal call returns before the next begins
NextSeq == StartCall(1) \/ CompileChild(1) \/ StoreSetter(1) \/ ApplySetter(1)

SpecSeq == Init /\ [][NextSeq]_vars

\* one Unmarshal call of the container, integer and text scenarios
StartShape(p) ==
    /\ ~Busy(p)
    /\ hist.calls = 0
    /\ \E i \in 1..Len(ShapeCalls) : Advance(p, Unmarshal(cache, ShapeCalls[i]))
    /\ UNCHANGED <<structs, cache, lab, srv>>

NextShapes == StartShape(1) \/ CompileChild(1) \/ StoreSetter(1) \/ ApplySetter(1)

SpecShapes == Init /\ [][NextShapes]_vars

----------------------------------------------------------------------------
(* Field resolution and a decode of the resolved struct, by themselves.    *)

InitFields ==
    /\ \E r \in RootShapes, e1 \in E1Shapes, e2 \in E2Shapes : structs = Shapes(r, e1, e2)
    /\ cache = EmptyCache
    /\ procs = [p \in Procs |-> Idle]
    /\ hist = NoHist
    /\ lab = [LabOff EXCEPT !.phase = "init"]
    /\ srv = NoRequest

Resolve ==
    /\ lab.phase = "init"
    /\ lab' = [lab EXCEPT !.phase = "resolved",
                           !.cands = AllCandidates(CollectCandidates("R")),
                           !.fields = fieldsToSerialize("R")]
    /\ UNCHANGED <<structs, cache, procs, hist, srv>>

Decode ==
    /\ lab.phase = "resolved"
    /\ \E src \in LabSources :
          lab' = [lab EXCEPT !.phase = "decoded", !.src = src,
                             !.res = Alone(MkCall("R", src, Zero("R")))]
    /\ UNCHANGED <<structs, cache, procs, hist, srv>>

NextFields == Resolve \/ Decode

SpecFields == InitFields /\ [][NextFields]_vars

----------------------------------------------------------------------------
(* One request served by a Handler.                                        *)

\* ServeHTTP of the handler begins on a request
BeginRequest ==
    /\ srv.pc = "idle"
    /\ \E params \in ParamLists, o \in 1..Len(AllOutputs), a \in 1..Len(Accepts) :
          \E ctype \in Negotiate(Accepts[a]) :
              srv' = [srv EXCEPT !.pc = "extract", !.params = params,
                                 !.outputs = AllOutputs[o], !.ctype = ctype]
    /\ UNCHANGED <<structs, cache, procs, hist, lab>>

\* the loop over the extractors going on after an error
ExtractParamKeepsGoing ==
    /\ srv.pc = "extract"
    /\ srv.got < Len(srv.params)
    /\ srv' = [srv EXCEPT !.got = @ + 1,
                          !.events = Append(@, Event("extract", srv.got + 1))]
    /\ UNCHANGED <<structs, cache, procs, hist, lab>>

\* the loop over the extractors: the next one runs; its error is served
\* with status 400 and ServeHTTP returns
ExtractParam ==
    /\ srv.pc = "extract"
    /\ srv.got < Len(srv.params)
    /\ LET idx == srv.got + 1
           ran == Append(srv.events, Event("extract", idx))
       IN  IF srv.params[idx].ok
           THEN srv' = [srv EXCEPT !.got = idx, !.events = ran]
           ELSE srv' = [srv EXCEPT !.pc = "done",
                                   !.w = ServeResponse(Error("extract parameter",
                                                             StatusBadRequest), @),
                                   !.events = Append(ran, Event("serve", StatusBadRequest))]
    /\ UNCHANGED <<structs, cache, procs, hist, lab>>

\* fn.Call(params), mapOutputs and the serving of the result
CallFunction ==
    /\ srv.pc = "extract"
    /\ srv.got = Len(srv.params)
    /\ LET called == Append(srv.events, Event("call", 0))
           w == CASE srv.outputs.failed ->
                        ServeResponse(Error("failed", StatusInternalServerError), srv.w)
                  [] ~srv.outputs.failed /\ srv.outputs.result # <<>> ->
                        Serve(srv.outputs.result[1], srv.ctype, srv.w)
                  [] OTHER -> srv.w
       IN  srv' = [srv EXCEPT !.pc = "close", !.closing = 1, !.w = w,
                              !.events = IF srv.outputs.failed \/ srv.outputs.result # <<>>
                                         THEN Append(called, Event("serve", w.statusCode))
                                         ELSE called]
    /\ UNCHANGED <<structs, cache, procs, hist, lab>>

\* the loop over the parameters after the call: Close on an io.Closer
CloseParam ==
    /\ srv.pc = "close"
    /\ srv.closing <= Len(srv.params)
    /\ srv' = [srv EXCEPT !.closing = @ + 1,
                          !.events = IF srv.params[srv.closing].closer
                                     THEN Append(@, Event("close", srv.closing))
                                     ELSE @]
    /\ UNCHANGED <<structs, cache, procs, hist, lab>>

\* ServeHTTP returns after the last parameter
ReturnServed ==
    /\ srv.pc = "close"
    /\ srv.closing > Len(srv.params)
    /\ srv' = [srv EXCEPT !.pc = "done"]
    /\ UNCHANGED <<structs, cache, procs, hist, lab>>

NextHandler == BeginRequest \/ ExtractParam \/ CallFunction \/ CloseParam \/ ReturnServed

SpecHandler == Init /\ [][NextHandler]_vars

----------------------------------------------------------------------------
(* Properties of the concurrent decode scenarios.                          *)

Done(p) == procs[p].pc = "done"

\* the call of p is a decode of a struct and has applied its setter
StructDone(p) == Done(p) /\ Kind(procs[p].call.ty) = "Struct" /\ procs[p].setter # NoSetter

\* C1: after any sequence of Unmarshal calls, calls whose compilation failed
\* included, a lazily-bound setter that is invoked finds the setter of its
\* type in the cache: no call ends in the panic of a missing cache entry.
C1_LazySetterFindsEntry ==
    \A p \in Procs : Done(p) => ~procs[p].res.panic

\* C2: as long as no compilation has failed, every Unmarshal call, however
\* it is interleaved with the other goroutine's loads and stores, returns
\* the value and the error it returns when it runs by itself.
C2_SameResultAsAlone ==
    \A p \in Procs :
        (Done(p) /\ ~hist.failed) => procs[p].res = Alone(procs[p].call)

\* the commits a source with a chain of k commits decodes to, from commit i on
RECURSIVE ChainFrom(_, _)
ChainFrom(i, k) == <<Sha[i], IF i = k THEN <<>> ELSE <<ChainFrom(i + 1, k)>>>>

MadeOnce(p) ==
    \A i, j \in 1..Len(procs[p].made) : procs[p].made[i] = procs[p].made[j] => i = j

ChainDecoded(p) ==
    \A k \in 1..MaxChain :
        (Done(p) /\ procs[p].call = MkCall("Node", ChainSource(k), Zero("Node")))
            => /\ ~IsErr(procs[p].res.err)
               /\ procs[p].res.val = ChainFrom(1, k)

FrameSteps(ty) == Len(Children(ty)) + 1

RECURSIVE SumFrameSteps(_)
SumFrameSteps(S) ==
    IF S = {} THEN 0
    ELSE LET x == CHOOSE y \in S : TRUE IN FrameSteps(x) + SumFrameSteps(S \ {x})

\* one entry for the target's type, and per type of the graph one entry for
\* every child of its one frame and one return
CompileBound == 1 + SumFrameSteps(DOMAIN TypeTable)

\* a call that is compiling takes a step at every turn and has taken at
\* most CompileBound of them
Terminating(p) ==
    /\ procs[p].steps <= CompileBound
    /\ procs[p].pc = "compile" => procs[p].stack # <<>>

\* C3: compiling the setter of any type of the graph, cyclic or not, comes to
\* an end (the number of setterOf entries and returns of one call is bounded
\* by the size of the type graph); within one Unmarshal call makeSetterOf
\* runs at most once per type; and a chain of k commits decodes to exactly k
\* nodes, the last with a nil parent.
C3_CompileTerminates ==
    \A p \in Procs : Terminating(p) /\ MadeOnce(p) /\ ChainDecoded(p)

\* C3 witness: the longest chain was decoded by a call that compiled the
\* cyclic type itself, binding the cycle lazily.
C3_Witness ==
    \E p \in Procs :
        /\ Done(p)
        /\ procs[p].call = MkCall("Node", ChainSource(MaxChain), Zero("Node"))
        /\ procs[p].made = <<"Node", "string", "*Node">>
        /\ procs[p].res.val = ChainFrom(1, MaxChain)

\* the positions of the log at which the struct setter of the call looked up
\* its i-th field in the call's source
LookupsOf(p, i) ==
    LET ps == procs[p]
        f == fieldsToSerialize(ps.call.ty)[i]
    IN  {j \in 1..Len(ps.res.log) : ps.res.log[j] = Call("Get", ps.call.src, f.Name)}

AbsentField(p, i) ==
    IsNoValue(SrcGet(procs[p].call.src, fieldsToSerialize(procs[p].call.ty)[i].Name).err)

\* C4: when Get answers ErrNoValue for a field of a decoded struct, no
\* accessor of a child node of that name is called, the field's slot keeps the
\* value it had, the next field of the resolved order is looked up next, and
\* the error of the call is not ErrNoValue.
C4_AbsentFieldSkipped ==
    \A p \in Procs : StructDone(p) =>
        LET ps == procs[p]
            fields == fieldsToSerialize(ps.call.ty)
        IN  \A i \in 1..Len(fields) : \A j \in LookupsOf(p, i) :
                AbsentField(p, i) =>
                    /\ \A m \in 1..Len(ps.res.log) :
                          ~IsPrefix(Append(ps.call.src.Path, fields[i].Name),
                                    ps.res.log[m].path)
                    /\ FieldByIndex(ps.res.val, fields[i].Index)
                          = FieldByIndex(ps.call.target, fields[i].Index)
                    /\ i < Len(fields) =>
                          /\ j < Len(ps.res.log)
                          /\ ps.res.log[j + 1] = Call("Get", ps.call.src, fields[i + 1].Name)
                    /\ ~IsNoValue(ps.res.err)

\* C4 witness: the commit without Sha1 kept its old Sha1 and got its parent.
C4_Witness ==
    \E p \in Procs :
        /\ StructDone(p)
        /\ procs[p].call = MkCall("Node", HeadlessSource, OldNode)
        /\ AbsentField(p, 1) /\ LookupsOf(p, 1) # {}
        /\ procs[p].res.val = <<"old", <<<<"bbbb", <<>>>>>>>>
        /\ ~IsErr(procs[p].res.err)

\* the decode of the call failed inside its i-th field
FailedInField(p, i) ==
    LET err == procs[p].res.err
    IN  /\ IsErr(err) /\ Len(err.ctx) > 0
        /\ err.ctx[1] = [msg |-> "set field",
                         arg |-> fieldsToSerialize(procs[p].call.ty)[i].Name]

\* C10: a pointer is written only after its pointee was decoded: a decode of
\* a pointer that fails leaves the pointer as it was, and so does a pointer
\* field of a struct whose decode fails or whose name the source lacks.
C10_PointerSetAfterDecode ==
    \A p \in Procs :
        /\ (Done(p) /\ Kind(procs[p].call.ty) = "Pointer" /\ IsErr(procs[p].res.err))
              => procs[p].res.val = procs[p].call.target
        /\ StructDone(p) =>
              LET ps == procs[p]
                  fields == fieldsToSerialize(ps.call.ty)
              IN  \A i \in 1..Len(fields) :
                      (/\ Kind(fields[i].Type) = "Pointer"
                       /\ AbsentField(p, i) \/ FailedInField(p, i))
                          => FieldByIndex(ps.res.val, fields[i].Index)
                                = FieldByIndex(ps.call.target, fields[i].Index)

\* C10 witness: a parent that failed to decode left the old parent in place,
\* and a fresh commit without a parent has a nil parent.
C10_Witness ==
    \E p \in Procs :
        /\ StructDone(p)
        /\ \/ /\ procs[p].call = MkCall("Node", BrokenSource, OldNode)
              /\ FailedInField(p, 2)
              /\ procs[p].res.val = <<"aaaa", OldNode[2]>>
           \/ /\ procs[p].call = MkCall("*Node", BrokenSource, <<OldNode>>)
              /\ IsErr(procs[p].res.err)

----------------------------------------------------------------------------
(* Properties of field resolution, stated on the declaration of the struct *)
(* R and of the structs it embeds, and compared with what fieldsToSerialize *)
(* returned (lab.fields) and with the decode of R (lab.res).                *)

\* the name a tag gives, empty when it gives none
TagName(tag) ==
    LET i == IndexComma(tag, 1)
    IN  IF i = 0 THEN tag ELSE SubSeq(tag, 1, i - 1)

Skipped(d) == d.tag = SkipTag

Renamed(d) == ~Skipped(d) /\ TagName(d.tag) # <<>>

ResolvedName(d) == IF Renamed(d) THEN TagName(d.tag) ELSE d.name

\* an embedded struct that is looked into
Expanded(d) ==
    d.exported /\ d.anon /\ ~Skipped(d) /\ ~Renamed(d) /\ Kind(d.type) = "Struct"

Slot(index, d) == [Index |-> index, decl |-> d]

\* the declared fields of ty and of the embedded structs looked into
RECURSIVE SlotsOf(_, _, _)
SlotsOf(ty, prefix, fuel) ==
    LET own == {Slot(Append(prefix, i), structs[ty][i]) : i \in 1..Len(structs[ty])}
    IN  own \cup
        (IF fuel = 0 THEN {}
         ELSE UNION {SlotsOf(x.decl.type, x.Index, fuel - 1) :
                        x \in {y \in own : Expanded(y.decl)}})

AllSlots == SlotsOf("R", <<>>, Cardinality(StructIds))

\* the slots that compete for a name
Cands == {x \in AllSlots : x.decl.exported /\ ~Skipped(x.decl)
                            /\ ~(x.decl.anon /\ ~Renamed(x.decl))}

CandsNamed(n) == {x \in Cands : ResolvedName(x.decl) = n}

CandNames == {ResolvedName(x.decl) : x \in Cands}

Shallowest(S) == {x \in S : \A y \in S : Len(x.Index) <= Len(y.Index)}

Tied(n) == Shallowest(CandsNamed(n))

RenamedOf(S) == {x \in S : Renamed(x.decl)}

\* the shadowing rule: the one shallowest candidate, else the one renamed
\* candidate among the shallowest, else none
Winner(n) ==
    IF Cardinality(Tied(n)) = 1 THEN Tied(n)
    ELSE IF Cardinality(RenamedOf(Tied(n))) = 1 THEN RenamedOf(Tied(n))
    ELSE {}

AsField(x) == Field(ResolvedName(x.decl), x.decl.type, x.Index)

Resolved == lab.phase \in {"resolved", "decoded"}

Decoded == lab.phase = "decoded"

OutNamed(n) == {lab.fields[i] : i \in {j \in 1..Len(lab.fields) : lab.fields[j].Name = n}}

\* the slot of the decoded R at an index path
Written(x) == FieldByIndex(lab.res.val, x.Index)

Untouched(x) == Written(x) = FieldByIndex(Zero("R"), x.Index)

\* C5: when two or more candidates of a name are tied at the shallowest
\* level, the one tied candidate with an explicit rename is the field of that
\* name; with no or several renamed ones the name has no field, and a decode
\* leaves the slot of every tied candidate at its zero value.
C5_TiesAtShallowestLevel ==
    Resolved =>
        \A n \in CandNames :
            Cardinality(Tied(n)) >= 2 =>
                IF Cardinality(RenamedOf(Tied(n))) = 1
                THEN OutNamed(n) = {AsField(x) : x \in RenamedOf(Tied(n))}
                ELSE /\ OutNamed(n) = {}
                     /\ Decoded => \A x \in Tied(n) : Untouched(x)

\* C5 witness: a decode with values for every name, of a struct with a tie
\* that went to the one renamed candidate, or with an unresolved tie.
C5_Witness ==
    /\ Decoded /\ ~IsErr(lab.res.err)
    /\ \A p \in DOMAIN lab.src.Values : lab.src.Values[p] # NilEntry
    /\ \E n \in CandNames :
          /\ Cardinality(Tied(n)) >= 2
          /\ \/ Cardinality(RenamedOf(Tied(n))) = 1 /\ OutNamed(n) # {}
             \/ Cardinality(RenamedOf(Tied(n))) = 2 /\ OutNamed(n) = {}

\* C6: the field of a name is never a candidate below the shallowest level of
\* that name, whichever candidates are renamed, and a name with exactly one
\* candidate at its shallowest level has that candidate as its field.
C6_ShallowerBeatsDeeper ==
    Resolved =>
        \A n \in CandNames :
            /\ OutNamed(n) \subseteq {AsField(x) : x \in Tied(n)}
            /\ Cardinality(Tied(n)) = 1 => OutNamed(n) = {AsField(x) : x \in Tied(n)}

\* C6 witness: a candidate without a rename won against a renamed candidate
\* of the same name one level further down.
C6_Witness ==
    /\ Resolved
    /\ \E n \in CandNames : \E x \in Tied(n), y \in CandsNamed(n) :
          /\ Len(y.Index) > Len(x.Index)
          /\ Renamed(y.decl) /\ ~Renamed(x.decl)
          /\ OutNamed(n) = {AsField(x)}

\* the exported embedded structs that are declared and not skipped
EmbeddedStructs ==
    {x \in AllSlots : x.decl.anon /\ x.decl.exported /\ ~Skipped(x.decl)
                       /\ Kind(x.decl.type) = "Struct"}

\* the fields of an embedded struct that compete for a name themselves
Promoted(x) ==
    {Slot(Append(x.Index, j), structs[x.decl.type][j]) : j \in 1..Len(structs[x.decl.type])}
        \cap Cands

Below(x, index) == IsPrefix(x.Index, index) /\ Len(index) > Len(x.Index)

CandidateOf(x) == Candidate(ResolvedName(x.decl), Renamed(x.decl), AsField(x))

SkippedSlots == {x \in AllSlots : x.decl.exported /\ Skipped(x.decl)}

\* the names the decode of R asked its source for
RootLookups ==
    {lab.res.log[j].key :
        j \in {i \in 1..Len(lab.res.log) :
                  lab.res.log[i].op = "Get" /\ lab.res.log[i].path = lab.src.Path}}

\* C8: a field with the tag "-" is no candidate and no field, and neither is
\* anything inside it when it is an embedded struct; a decode does not write
\* its slot and asks the source neither for "-" nor, on its account, for its
\* declared name; and the field of its declared name is the one the
\* shadowing rule gives without it.
C8_SkippedFieldDropped ==
    Resolved =>
        \A x \in SkippedSlots :
            /\ \A c \in lab.cands : ~IsPrefix(x.Index, c.Field.Index)
            /\ \A i \in 1..Len(lab.fields) : ~IsPrefix(x.Index, lab.fields[i].Index)
            /\ OutNamed(x.decl.name) = {AsField(w) : w \in Winner(x.decl.name)}
            /\ Decoded =>
                  /\ Untouched(x)
                  /\ SkipTag \notin RootLookups
                  /\ x.decl.name \in RootLookups => OutNamed(x.decl.name) # {}

\* C8 witness: a decode from a source with a value for every name, of a
\* struct with a skipped field whose declared name is the name of a field
\* one level further down, which is in the output.
C8_Witness ==
    /\ Decoded /\ ~IsErr(lab.res.err)
    /\ \A p \in DOMAIN lab.src.Values : lab.src.Values[p] # NilEntry
    /\ \E x \in SkippedSlots : \E y \in CandsNamed(x.decl.name) :
          /\ Len(x.Index) < Len(y.Index)
          /\ OutNamed(x.decl.name) = {AsField(y)}
          /\ Written(y) # FieldByIndex(Zero("R"), y.Index)

\* C9: no two fields of the output have the same name, and every field of
\* the output is the winner of its name under the shadowing rule.
C9_OneFieldPerName ==
    Resolved =>
        /\ \A i, j \in 1..Len(lab.fields) :
              lab.fields[i].Name = lab.fields[j].Name => i = j
        /\ \A i \in 1..Len(lab.fields) :
              lab.fields[i] \in {AsField(w) : w \in Winner(lab.fields[i].Name)}

\* C9 witness: an output of two fields, one of them the renamed one of
\* several candidates tied at the shallowest level.
C9_Witness ==
    /\ Resolved
    /\ Len(lab.fields) >= 2
    /\ \E i \in 1..Len(lab.fields) :
          /\ Cardinality(Tied(lab.fields[i].Name)) >= 2
          /\ Winner(lab.fields[i].Name) # {}

----------------------------------------------------------------------------
(* Properties of the container, integer and text scenarios.                *)

\* the call of goroutine 1 has returned without a panic
Returned == Done(1) /\ ~procs[1].res.panic

\* the positions of the log at which an error came into being
FailuresOf(log) == {j \in 1..Len(log) : log[j].op = "Fail"}

CompileFailed(res) == IsErr(res.err) /\ res.err.cause = "NotSupportedError"

\* C11: the first error of a decode is its last event: no accessor is called
\* and no slot is written after it, the call returns an error with that first
\* error as its cause, and a call that returns no error met none.
C11_FirstErrorEndsDecode ==
    Returned =>
        LET res == procs[1].res
            fails == FailuresOf(res.log)
        IN  /\ (IsErr(res.err) /\ ~CompileFailed(res)) =>
                  /\ fails = {Len(res.log)}
                  /\ Last(res.log) = Failure(res.err)
            /\ ~IsErr(res.err) => fails = {}

\* C11 witness: the first of two children of a tree failed, and the second
\* was neither appended nor read.
C11_Witness ==
    /\ Returned
    /\ procs[1].call.ty = "Tree" /\ procs[1].call.src = TwoKidsSource
    /\ procs[1].res.err.cause = "ErrInvalidType"
    /\ Len(procs[1].res.val[2]) = 1
    /\ Last(procs[1].res.log).op = "Fail"
    /\ Cardinality({j \in 1..Len(procs[1].res.log) : procs[1].res.log[j].op = "Iter"}) = 2

\* the decode of the struct of the call failed at its k-th field
FailedAt(k) ==
    LET err == procs[1].res.err
    IN  /\ Returned /\ StructDone(1)
        /\ IsErr(err) /\ Len(err.ctx) > 0
        /\ err.ctx[1].msg \in {"set field", "lookup child"}
        /\ err.ctx[1].arg = fieldsToSerialize(procs[1].call.ty)[k].Name

\* the first position of the log at which the i-th field was looked up
LookupOf(i) == CHOOSE j \in LookupsOf(1, i) : \A m \in LookupsOf(1, i) : j <= m

\* the i-th field decoded by its own setter from its own child node, after the
\* accessor calls made up to its lookup
DecodedField(i) ==
    LET ps == procs[1]
        f == fieldsToSerialize(ps.call.ty)[i]
    IN  RunSetter(ps.setter.setters[i], SrcGet(ps.call.src, f.Name).v,
                  FieldByIndex(ps.call.target, f.Index), cache,
                  SubSeq(ps.res.log, 1, LookupOf(i)))

\* C12: when the decode of a struct fails at the k-th field of the resolved
\* order, every earlier field the source has holds its decoded value and
\* every later field holds the value it had before the call.
C12_PartialStruct ==
    StructDone(1) =>
        LET ps == procs[1]
            fields == fieldsToSerialize(ps.call.ty)
        IN  \A k \in 1..Len(fields) : FailedAt(k) =>
                /\ \A i \in 1..(k - 1) :
                      ~AbsentField(1, i) =>
                          /\ ~IsErr(DecodedField(i).err)
                          /\ FieldByIndex(ps.res.val, fields[i].Index) = DecodedField(i).val
                /\ \A i \in (k + 1)..Len(fields) :
                      FieldByIndex(ps.res.val, fields[i].Index)
                         = FieldByIndex(ps.call.target, fields[i].Index)

\* C12 witness: a host whose port is no number got its new address and kept
\* its old port and count.
C12_Witness ==
    /\ procs[1].call.ty = "Host"
    /\ FailedAt(2)
    /\ procs[1].call.src = HostSource(GoodIP, Entry("string", "http"), Entry("int64", 3))
    /\ procs[1].call.target = OldHost
    /\ procs[1].res.val = <<<<1, 2, 3, 4>>, <<8080>>, 7>>

\* the decode of a target of the kind, by the setter of the kind, has returned
KindDone(kind) ==
    /\ Returned /\ procs[1].setter # NoSetter
    /\ Kind(procs[1].call.ty) = kind /\ ~HasTextHook(procs[1].call.ty)

\* the elements the sequence of the call's source produces
Produced == SrcIter(procs[1].call.src).items

\* the i-th produced element decoded by the element setter into a new
\* element, after the elements before it
RECURSIVE DecodedElement(_)
DecodedElement(i) ==
    RunSetter(procs[1].setter.elementSetter, ItemAt(Produced, i),
              Zero(Elem(procs[1].call.ty)), cache,
              IF i = 1 THEN <<>> ELSE DecodedElement(i - 1).log)

\* C13: after a successful decode of a slice, into an existing value or into
\* a new one, the slice has as many elements as the source produced and its
\* i-th element is the value decoded from the i-th produced element.
C13_SliceHoldsSourceElements ==
    (KindDone("Slice") /\ ~IsErr(procs[1].res.err)) =>
        /\ Len(procs[1].res.val) = Len(Produced.items)
        /\ \A i \in 1..Len(Produced.items) : procs[1].res.val[i] = DecodedElement(i).val

\* min(M, N): the slots of the array the source has elements for
Filled ==
    IF Produced.endless THEN ArrayLen(procs[1].call.ty)
    ELSE Min(Len(Produced.items), ArrayLen(procs[1].call.ty))

\* the source of the call has a sequence
HasSequence == IsSlice(procs[1].call.src) /\ ~IsErr(SrcIter(procs[1].call.src).err)

\* C14: a new array of length N decoded from a sequence of M elements fails
\* only when the decode of one of the first min(M, N) elements fails; else
\* slot i holds the value decoded from the i-th element for i up to
\* min(M, N), the slots after it are zero, and no element after the N-th is
\* read.
C14_ArrayTakesFirstN ==
    (KindDone("Array") /\ HasSequence /\ procs[1].call.target = Zero(procs[1].call.ty)) =>
        LET res == procs[1].res
            n == ArrayLen(procs[1].call.ty)
        IN  /\ IsErr(res.err) => \E i \in 1..Filled : IsErr(DecodedElement(i).err)
            /\ ~IsErr(res.err) =>
                  /\ \A i \in 1..Filled : res.val[i] = DecodedElement(i).val
                  /\ \A i \in (Filled + 1)..n : res.val[i] = Zero(Elem(procs[1].call.ty))
                  /\ Tail(res.log) = IF Filled = 0 THEN <<>> ELSE DecodedElement(Filled).log

\* C14 witness: an array of two strings took the first two of three elements.
C14_Witness ==
    /\ KindDone("Array") /\ procs[1].call.ty = "[2]string"
    /\ procs[1].call.src = Leaf("strings", <<"a", "b", "c">>)
    /\ ~IsErr(procs[1].res.err)
    /\ procs[1].res.val = <<"a", "b">>

\* the pairs the associative capability of the call's source produces
SourcePairs == SrcKeyValues(procs[1].call.src).pairs

DecodedKey(i) ==
    RunSetter(procs[1].setter.keySetter, SourcePairs[i].key,
              Zero(Key(procs[1].call.ty)), cache, <<>>)

DecodedValue(i) ==
    RunSetter(procs[1].setter.valueSetter, SourcePairs[i].value,
              Zero(Elem(procs[1].call.ty)), cache, <<>>)

\* C15: a successful decode of a map leaves in the target exactly the pairs
\* decoded from the pairs of the source, none of its earlier entries, and
\* writes the target last; a failed decode of a key or a value leaves the
\* target as it was; a source without the associative capability fails with
\* ErrInvalidType before any accessor is called and leaves the target as it
\* was.
C15_MapReplaced ==
    KindDone("Map") =>
        LET res == procs[1].res
        IN  /\ ~IsMapSource(procs[1].call.src) =>
                  /\ res.err = ErrInvalidType
                  /\ res.log = <<Failure(ErrInvalidType)>>
            /\ IsErr(res.err) => res.val = procs[1].call.target
            /\ ~IsErr(res.err) =>
                  /\ res.val.pairs =
                        {<<DecodedKey(i).val, DecodedValue(i).val>> : i \in 1..Len(SourcePairs)}
                  /\ Last(res.log) = Write
                  /\ \A i \in 1..Len(SourcePairs) :
                        ~IsErr(DecodedKey(i).err) /\ ~IsErr(DecodedValue(i).err)

\* C15 witness: a map that held one entry holds the two of the source and
\* not the old one.
C15_Witness ==
    /\ KindDone("Map") /\ procs[1].call.ty = "map[string]string"
    /\ IsMapSource(procs[1].call.src)
    /\ procs[1].call.target = OldMap
    /\ ~IsErr(procs[1].res.err)
    /\ procs[1].res.val = MapOf({<<"k", "v">>, <<"j", "w">>})

IsAccessor(e) == e.op \in Accessors

\* the accessors the call has called, in the order of the calls
AccessorsCalled ==
    LET calls == SelectSeq(procs[1].res.log, IsAccessor)
    IN  [i \in 1..Len(calls) |-> calls[i].op]

\* the decode of an integer target has returned
IntDone == KindDone("Int") \/ KindDone("Uint")

\* StringValue and binarySourceValue have the eight sized accessors
HasSizedAccessors(src) == src.kind \in {"string", "binary"}

\* C16: the decode of an integer of 8, 16, 32 or 64 bits from a source with
\* the sized accessors calls one accessor, the one of the target's width and
\* signedness, and not Int; the decode of an int or uint, or from a source
\* without the sized accessors, calls Int once and nothing else.
C16_OneAccessorOfExactWidth ==
    IntDone =>
        LET ty == procs[1].call.ty
        IN  IF IntWidth(ty) # 0 /\ HasSizedAccessors(procs[1].call.src)
            THEN AccessorsCalled = <<SizedOp(Kind(ty) = "Int", IntWidth(ty))>>
            ELSE AccessorsCalled = <<"Int">>

\* C16 witness: a uint16 was read from a text by Uint16.
C16_Witness ==
    /\ IntDone /\ procs[1].call.ty = "uint16"
    /\ procs[1].call.src.kind = "string" /\ procs[1].call.src.v = "7"
    /\ AccessorsCalled = <<"Uint16">>
    /\ ~IsErr(procs[1].res.err) /\ procs[1].res.val = 7

\* the width in bytes of the i-th field of the struct of the call
WidthOf(i) == IntWidth(fieldsToSerialize(procs[1].call.ty)[i].Type)

\* w_1 + ... + w_i
RECURSIVE WidthsUpTo(_)
WidthsUpTo(i) == IF i = 0 THEN 0 ELSE WidthsUpTo(i - 1) + WidthOf(i)

IsRead(e) == e.op \in SizedOps /\ e.path = <<"reader">>

\* the reads of the stream the call has made, in their order
Reads == SelectSeq(procs[1].res.log, IsRead)

\* a struct of sized integers was decoded from a byte stream without an error
StreamDecoded ==
    /\ Returned /\ procs[1].call.ty = "Ints" /\ procs[1].call.src.kind = "binary"
    /\ ~IsErr(procs[1].res.err)

\* C17: a struct of sized integers decoded from a byte stream reads its i-th
\* field from the w_i bytes at offset w_1 + ... + w_(i-1), as the
\* little-endian number of those bytes; the reads follow each other without
\* gap or overlap and consume the sum of the widths.
C17_FieldsReadAtOffsets ==
    StreamDecoded =>
        LET fields == fieldsToSerialize(procs[1].call.ty)
            stream == procs[1].call.src.stream
        IN  /\ Len(Reads) = Len(fields)
            /\ \A i \in 1..Len(fields) :
                  /\ Reads[i].op = SizedOp(Kind(fields[i].Type) = "Int", WidthOf(i))
                  /\ Reads[i].key = <<WidthsUpTo(i - 1), WidthOf(i)>>
                  /\ procs[1].res.val[i]
                        = LittleEndian(SubSeq(stream, WidthsUpTo(i - 1) + 1, WidthsUpTo(i)),
                                       Kind(fields[i].Type) = "Int")
            /\ Consumed(procs[1].res.log) = WidthsUpTo(Len(fields))

\* the node answers Int() with a negative number to a setter of the type that
\* goes through Int()
NegativeFor(ty, src) ==
    /\ Kind(ty) = "Uint"
    /\ IntWidth(ty) = 0 \/ ~HasSizedAccessors(src)
    /\ ~IsErr(SrcInt(src).err) /\ SrcInt(src).v < 0

\* the child node of the i-th field of the struct of the call is such a node
NegativeField(i) ==
    LET f == fieldsToSerialize(procs[1].call.ty)[i]
        got == SrcGet(procs[1].call.src, f.Name)
    IN  /\ IsContainer(procs[1].call.src)
        /\ ~IsErr(got.err) /\ NegativeFor(f.Type, got.v)

\* C18: an unsigned target decoded through Int() from a node that answers a
\* negative number fails with the error of the sign and is left as it was;
\* as a field of a struct, the error carries the name of the field, unless
\* the decode failed at an earlier field.
C18_NegativeUintFails ==
    /\ (KindDone("Uint") /\ NegativeFor(procs[1].call.ty, procs[1].call.src)) =>
          /\ procs[1].res.err = InvalidUint
          /\ procs[1].res.val = procs[1].call.target
          /\ \A j \in 1..Len(procs[1].res.log) : procs[1].res.log[j] # Write
    /\ (Returned /\ StructDone(1)) =>
          LET fields == fieldsToSerialize(procs[1].call.ty)
          IN  \A i \in 1..Len(fields) : NegativeField(i) =>
                  \/ \E k \in 1..(i - 1) : FailedAt(k)
                  \/ /\ FailedAt(i)
                     /\ procs[1].res.err = Wrap("set field", fields[i].Name, InvalidUint)
                     /\ FieldByIndex(procs[1].res.val, fields[i].Index)
                           = FieldByIndex(procs[1].call.target, fields[i].Index)

\* C18 witness: a host with a count of -5 failed at Count and kept its count.
C18_Witness ==
    /\ procs[1].call.ty = "Host"
    /\ procs[1].call.src = HostSource(GoodIP, Entry("int64", 80), Entry("int64", -5))
    /\ procs[1].call.target = OldHost
    /\ FailedAt(3)
    /\ procs[1].res.err.cause = "invalid uint value"
    /\ procs[1].res.val = <<<<1, 2, 3, 4>>, <<80>>, 7>>

\* the decode of a target whose type has a parser of its own has returned
TextDone == Returned /\ procs[1].setter # NoSetter /\ procs[1].call.ty \in TextTypes

\* the events of the log on the child node of the i-th field of the struct
EventsOnField(i) ==
    LET path == Append(procs[1].call.src.Path, fieldsToSerialize(procs[1].call.ty)[i].Name)
        On(e) == e.path = path
    IN  SelectSeq(procs[1].res.log, On)

\* C19: a target whose type has a parser of its own is decoded by one call of
\* String and by the parser: no Get, Iter or KeyValues is called, whatever
\* the kind of the type and the capabilities of the source; the error of
\* String or of the parser is the error of the decode, and the parsed value
\* is its result.
C19_TextHookFirst ==
    /\ TextDone =>
          LET res == procs[1].res
              text == SrcString(procs[1].call.src)
              parsed == UnmarshalText(procs[1].call.ty, text.v)
          IN  /\ AccessorsCalled = <<"String">>
              /\ IsErr(text.err) =>
                    res.err.cause = text.err.cause /\ res.val = procs[1].call.target
              /\ (~IsErr(text.err) /\ IsErr(parsed.err)) =>
                    res.err = parsed.err /\ res.val = procs[1].call.target
              /\ (~IsErr(text.err) /\ ~IsErr(parsed.err)) =>
                    ~IsErr(res.err) /\ res.val = parsed.v
    /\ (Returned /\ StructDone(1)) =>
          LET fields == fieldsToSerialize(procs[1].call.ty)
          IN  \A i \in 1..Len(fields) : fields[i].Type \in TextTypes =>
                  \A j \in 1..Len(EventsOnField(i)) : EventsOnField(i)[j].op = "String"

\* C19 witness: tags, a slice by kind, were parsed from the text of a node.
C19_Witness ==
    /\ TextDone /\ procs[1].call.ty = "Tags"
    /\ procs[1].call.src = Leaf("string", "a,b")
    /\ procs[1].res.val = <<"a", "b">>
    /\ AccessorsCalled = <<"String">>

\* the types setterOf is asked for, directly or not, by the compile of a type
RECURSIVE TypesFrom(_, _)
TypesFrom(todo, seen) ==
    IF todo = {} THEN seen
    ELSE LET t == CHOOSE x \in todo : TRUE
             kids == {Children(t)[i] : i \in 1..Len(Children(t))}
         IN  TypesFrom((todo \cup kids) \ (seen \cup {t}), seen \cup {t})

\* the types of an unsupported kind the type reaches
Offending(ty) == {t \in TypesFrom({ty}, {}) : ~Supported(t)}

\* C20: every Unmarshal call, the first or a later one, on a type that is of
\* an unsupported kind or reaches one returns the NotSupportedError of an
\* offending type, without an accessor call and with the target as it was;
\* and the cache holds no type that is of an unsupported kind or has a
\* direct child of one.
C20_UnsupportedFailsAtCompile ==
    /\ (Done(1) /\ Offending(procs[1].call.ty) # {}) =>
          /\ ~procs[1].res.panic
          /\ CompileFailed(procs[1].res)
          /\ procs[1].res.err.on \in Offending(procs[1].call.ty)
          /\ procs[1].res.log = <<>>
          /\ procs[1].res.val = procs[1].call.target
    /\ \A t \in DOMAIN cache :
          Supported(t) /\ \A i \in 1..Len(Children(t)) : Supported(Children(t)[i])

----------------------------------------------------------------------------
(* Properties of the cache, of the built-in sources and of the handler.    *)

\* the call of goroutine p has compiled the setter of its type itself
CompiledItself(p) ==
    /\ procs[p].pc \in {"run", "done"}
    /\ procs[p].setter # NoSetter
    /\ procs[p].made # <<>>

\* goroutine p begins an Unmarshal call in this step
CallBegins(p) == ~Busy(p) /\ procs'[p] # procs[p]

\* the call that begins finds the setter of its type at the first lookup
HitsAtFirstLookup(p) ==
    /\ procs'[p].pc = "run"
    /\ procs'[p].setter = cache[procs'[p].call.ty]
    /\ procs'[p].made = <<>>
    /\ procs'[p].steps = 1
    /\ cache' = cache

QueryDone ==
    /\ Returned /\ procs[1].setter # NoSetter
    /\ procs[1].call.ty = "Article"
    /\ procs[1].call.src.kind = "query"

\* the values the request gives for the key: none (<<>>) or one list
RequestValues(values, key) ==
    IF Append(key, "[]") \in DOMAIN values THEN <<values[Append(key, "[]")]>>
    ELSE IF key \in DOMAIN values THEN <<values[key]>>
    ELSE <<>>

\* C22: Get(key) of the query source is a sequence over the values of key[]
\* when the request has that key, also when it has it once and has the plain
\* key too; else over the values of key; else the no-such-child error. The
\* sequence produces the values in request order, and a slice field decoded
\* from it holds them in that order.
C22_QueryGetPrefersBracketed ==
    QueryDone =>
        LET src == procs[1].call.src
            expected == RequestValues(src.Values, <<"Tags">>)
            got == SrcGet(src, <<"Tags">>)
            produced == SrcIter(got.v)
        IN  IF expected = <<>>
            THEN /\ got.err = ErrNoValue
                 /\ ~IsErr(procs[1].res.err)
                 /\ procs[1].res.val[2] = procs[1].call.target[2]
            ELSE /\ ~IsErr(got.err)
                 /\ ~IsErr(produced.err)
                 /\ produced.items = Items([i \in 1..Len(expected[1]) |->
                                               StringValue(expected[1][i])])
                 /\ ~IsErr(procs[1].res.err)
                 /\ procs[1].res.val[2] = expected[1]

\* C22 witness: the request has Tags[] once and Tags twice; the article
\* holds the one value of Tags[].
C22_Witness ==
    /\ QueryDone
    /\ procs[1].call.src = TagsQuery(<<<<"c">>>>, <<<<"a", "b">>>>)
    /\ procs[1].res.val = <<"hi", <<"c">>>>

\* a scalar has been decoded from one of the built-in sources
ScalarDone ==
    /\ Returned /\ procs[1].setter # NoSetter
    /\ procs[1].call.ty \notin TextTypes
    /\ Kind(procs[1].call.ty) \in {"String", "Int", "Uint"}
    /\ procs[1].call.src.kind \in {"string", "strings", "invalid"}

\* the text the node can be coerced from: none (<<>>) or one
TextOfNode(src) ==
    CASE src.kind = "string" -> <<src.v>>
      [] src.kind = "strings" -> IF Len(src.items) = 1 THEN <<src.items[1]>> ELSE <<>>
      [] OTHER -> <<>>

\* C23: a scalar decoded from a StringValue, an InvalidValue or a
\* stringSliceValue without an error comes from a node that can be coerced:
\* the node has one text, a string target holds that text and an integer
\* target's text is a numeral; a node with no text or several is an error.
C23_ScalarOrError ==
    (ScalarDone /\ ~IsErr(procs[1].res.err)) =>
        LET text == TextOfNode(procs[1].call.src)
        IN  /\ text # <<>>
            /\ IF Kind(procs[1].call.ty) = "String"
               THEN procs[1].res.val = text[1]
               ELSE ~IsErr(ParseInt(text[1], 64).err)

\* the events of the request with the given operation
EventsOf(op) == SelectSeq(srv.events, LAMBDA e : e.op = op)

\* the parameters whose extractor fails on the request
Failing == {k \in 1..Len(srv.params) : ~srv.params[k].ok}

\* ServeHTTP has returned
Served == srv.pc = "done"

\* C24: the extractors run in the order of the parameters, each once; when
\* the extractor of parameter k fails, no extractor of a later parameter
\* runs, the wrapped function is not called and ServeHTTP returns with
\* status 400; the function is called when all extractors have succeeded.
C24_ExtractorFailureIs400 ==
    /\ \A i \in 1..Len(EventsOf("extract")) : EventsOf("extract")[i].n = i
    /\ Failing # {} =>
          LET k == CHOOSE f \in Failing : \A g \in Failing : f <= g
          IN  /\ Len(EventsOf("extract")) <= k
              /\ EventsOf("call") = <<>>
              /\ Served => /\ srv.w.statusCode = StatusBadRequest
                           /\ Last(srv.events) = Event("serve", StatusBadRequest)
                           /\ Len(EventsOf("extract")) = k
    /\ EventsOf("call") # <<>> =>
          /\ Failing = {}
          /\ \E i \in 1..Len(srv.events) :
                /\ srv.events[i].op = "call"
                /\ SubSeq(srv.events, 1, i - 1) = [k \in 1..Len(srv.params) |-> Event("extract", k)]
    /\ (Served /\ Failing = {}) => Len(EventsOf("call")) = 1

\* C24 witness: the second of three extractors has failed.
C24_Witness ==
    /\ Served
    /\ Len(srv.params) = MaxParams
    /\ Failing = {2, 3}
    /\ srv.events = <<Event("extract", 1), Event("extract", 2), Event("serve", StatusBadRequest)>>
    /\ srv.w.statusCode = StatusBadRequest

\* the function has returned a JSON response, or one that is encoded as
\* JSON for the request, whose value can be encoded, and it has been served
JSONServed ==
    /\ srv.pc \in {"close", "done"}
    /\ EventsOf("call") # <<>>
    /\ ~srv.outputs.failed
    /\ srv.outputs.result # <<>>
    /\ srv.outputs.result[1].ok
    /\ \/ srv.outputs.result[1].lazy = "json"
       \/ /\ srv.outputs.result[1].lazy = "encoded"
          /\ srv.ctype \in {"application/json", ""}

\* C25: a served JSON response whose value could be encoded has the content
\* type application/json, whatever status code and headers were set on it
\* before.
C25_JSONContentType ==
    JSONServed =>
        /\ "Content-Type" \in DOMAIN srv.w.header
        /\ srv.w.header["Content-Type"] \in {"application/json",
                                             "application/json; charset=utf8"}

\* the positions of the events of the request with the given operation
PositionsOf(op) == {i \in 1..Len(srv.events) : srv.events[i].op = op}

\* the extracted parameters that implement io.Closer, in parameter order
Closers ==
    SelectSeq([k \in 1..srv.got |-> k], LAMBDA k : srv.params[k].closer)

\* C30: when ServeHTTP has returned, every extracted parameter that is an
\* io.Closer has been closed once, the closes are in parameter order, and
\* each of them comes after the call of the wrapped function and after the
\* serving of its result; also when the extractor of a later parameter has
\* failed or the function has returned an error.
C30_ClosersClosedOnce ==
    /\ Served =>
          [i \in 1..Len(EventsOf("close")) |-> EventsOf("close")[i].n] = Closers
    /\ \A c \in PositionsOf("close") :
          /\ \E i \in PositionsOf("call") : i < c
          /\ \A i \in PositionsOf("serve") : i < c

----------------------------------------------------------------------------
(* Properties of the order of the resolved fields and of the candidates.   *)

\* index path a comes before index path b in the walk level by level: it is
\* less nested, or as nested and before b in the order of the declarations
RECURSIVE DeclaredBefore(_, _)
DeclaredBefore(a, b) ==
    /\ a # <<>> /\ b # <<>>
    /\ \/ Head(a) < Head(b)
       \/ Head(a) = Head(b) /\ DeclaredBefore(Tail(a), Tail(b))

WalkedBefore(a, b) ==
    \/ Len(a) < Len(b)
    \/ Len(a) = Len(b) /\ DeclaredBefore(a, b)

\* the index path at which the walk meets the name for the first time
FirstSeen(n) ==
    (CHOOSE x \in CandsNamed(n) :
        \A y \in CandsNamed(n) : y = x \/ WalkedBefore(x.Index, y.Index)).Index

\* the positions of the lookups at the root in the log of the decode
RootGets ==
    SelectSeq([j \in 1..Len(lab.res.log) |-> j],
              LAMBDA j : lab.res.log[j].op = "Get" /\ lab.res.log[j].path = lab.src.Path)

\* the position in the log at which the part of the k-th lookup ends
PartEnd(k) == IF k < Len(RootGets) THEN RootGets[k + 1] - 1 ELSE Len(lab.res.log)

\* C26: the resolved fields are in the order in which the walk level by
\* level meets their names for the first time, so a name first met at one
\* depth is before every name first met further down; a decode looks up
\* each resolved field once, in that order, and every accessor call between
\* the lookup of a field and the lookup of the next is on the child node of
\* that field.
C26_FieldsInWalkOrder ==
    /\ Resolved =>
          \A i, j \in 1..Len(lab.fields) :
              i < j => /\ WalkedBefore(FirstSeen(lab.fields[i].Name), FirstSeen(lab.fields[j].Name))
                       /\ Len(FirstSeen(lab.fields[i].Name)) <= Len(FirstSeen(lab.fields[j].Name))
    /\ Decoded =>
          /\ [k \in 1..Len(RootGets) |-> lab.res.log[RootGets[k]].key]
                = [k \in 1..Len(lab.fields) |-> lab.fields[k].Name]
          /\ \A k \in 1..Len(RootGets) : \A j \in (RootGets[k] + 1)..PartEnd(k) :
                lab.res.log[j].op \in Accessors =>
                    IsPrefix(Append(lab.src.Path, lab.fields[k].Name), lab.res.log[j].path)

\* C26 witness: a decode of a struct with a resolved field of its own after
\* an embedded struct in the declaration, and a field of that embedded
\* struct resolved after it.
C26_Witness ==
    /\ Decoded
    /\ Len(lab.fields) = 2
    /\ lab.fields[1].Index = <<2>>
    /\ Len(lab.fields[2].Index) = 2
    /\ lab.fields[2].Index[1] = 1
    /\ Len(RootGets) = 2
    /\ Len(lab.res.log) > 4

\* an integer was decoded through the generic accessor Int without an error
GenericIntDecoded ==
    /\ IntDone
    /\ AccessorsCalled = <<"Int">>
    /\ ~IsErr(procs[1].res.err)

\* C27: an integer target decoded through Int() without an error holds the
\* number Int() returned, which is in the range of the target's type; it
\* never holds that number reduced modulo 2^w.
C27_GenericIntRangeChecked ==
    GenericIntDecoded =>
        /\ procs[1].res.val = SrcInt(procs[1].call.src).v
        /\ InRange(SrcInt(procs[1].call.src).v, 8 * IntWidth(procs[1].call.ty),
                   Kind(procs[1].call.ty) = "Int")

\* the accessor calls of the decode on the elements of the sequence
ElementCalls == SelectSeq(procs[1].res.log, LAMBDA e : IsAccessor(e) /\ e.op # "Iter")

\* C28: the decode of an array of N scalars from a sequence, also one that
\* never ends, returns after at most N accessor calls on elements; from a
\* byte stream it makes at most N reads, N when it succeeds, and consumes
\* no byte on behalf of an element after the N-th.
C28_ArrayBoundsTheIteration ==
    (KindDone("Array") /\ HasSequence) =>
        LET n == ArrayLen(procs[1].call.ty)
            width == IntWidth(Elem(procs[1].call.ty))
        IN  /\ Len(ElementCalls) <= n
            /\ procs[1].call.src.kind = "binary" =>
                  /\ Produced.endless
                  /\ Len(Reads) <= n
                  /\ Len(Reads) = Len(ElementCalls)
                  /\ Consumed(procs[1].res.log) <= n * width
                  /\ ~IsErr(procs[1].res.err) => Len(Reads) = n

\* C28 witness: an array of two bytes was decoded from a stream of three
\* bytes, which the decode left with one byte unread.
C28_Witness ==
    /\ KindDone("Array")
    /\ procs[1].call.ty = "[2]uint8"
    /\ procs[1].call.src.kind = "binary"
    /\ Len(procs[1].call.src.stream) = 3
    /\ ~IsErr(procs[1].res.err)
    /\ Len(Reads) = 2
    /\ Consumed(procs[1].res.log) = 2

----------------------------------------------------------------------------
(* Properties of the candidates recorded for one name.                     *)

Depth(c) == Len(c.Field.Index)

\* the candidates the walk recorded for the root struct
Walked == CollectCandidates("R")

\* the visible candidates when candidate i of cands is scanned
VisibleBefore(cands, i) == VisibleOf(SubSeq(cands, 1, i - 1), 1, <<>>)

\* candidate i of cands takes the branch "less nested than the visible ones"
LessNestedAt(cands, i) ==
    /\ Len(VisibleBefore(cands, i)) > 0
    /\ Depth(cands[i]) < Depth(VisibleBefore(cands, i)[1])

\* C29: after the walk the candidates of every name are in non-decreasing
\* nesting depth, no candidate is scanned as less nested than the visible
\* ones, and after every step of the scan the visible candidates are the
\* candidates scanned so far that have the minimum depth; at the end they
\* are the least nested declarations of the name.
C29_CandidatesByDepth ==
    Resolved =>
        /\ AllCandidates(Walked) = lab.cands
        /\ DOMAIN Walked.candidates = CandNames
        /\ \A n \in DOMAIN Walked.candidates :
              LET cands == Walked.candidates[n]
              IN  /\ Len(cands) > 0
                  /\ \A i \in 1..Len(cands), j \in 1..Len(cands) :
                        i < j => Depth(cands[i]) <= Depth(cands[j])
                  /\ \A i \in 1..Len(cands) : ~LessNestedAt(cands, i)
                  /\ \A i \in 1..Len(cands) :
                        Range(VisibleBefore(cands, i + 1))
                          = {c \in Range(SubSeq(cands, 1, i)) :
                               \A d \in Range(SubSeq(cands, 1, i)) : Depth(c) <= Depth(d)}
                  /\ {c.Field.Index : c \in Range(VisibleOf(cands, 1, <<>>))}
                        = {x.Index : x \in Tied(n)}

\* C29 witness: a name has three candidates, the first two at the same
\* depth and both visible, the third more nested and recorded after them.
C29_Witness ==
    /\ Resolved
    /\ \E n \in DOMAIN Walked.candidates :
          LET cands == Walked.candidates[n]
          IN  /\ Len(cands) = 3
              /\ Depth(cands[1]) = Depth(cands[2])
              /\ Depth(cands[2]) < Depth(cands[3])
              /\ VisibleOf(cands, 1, <<>>) = <<cands[1], cands[2]>>

====
